---- MODULE Spec2Model ----
(***************************************************************************)
(* Model of the retrieval-and-grounding pipeline of the historical archive *)
(* QA system: the chunker and the upload processing of                     *)
(* infra/document_loader.py, the page-number inference of                  *)
(* extract_text_from_pdf, and the grounding evaluator of                   *)
(* infra/evaluation.py as called by services/evaluation_service.py.        *)
(*                                                                         *)
(* Every function is modelled by its own specification: the inputs are     *)
(* drawn by the initial predicate from bounded sets and the actions apply  *)
(* the function.  The variables of the other functions stay at their idle  *)
(* values.                                                                 *)
(***************************************************************************)
EXTENDS Integers, Sequences, FiniteSets, TLC

VARIABLES
    pc,             \* position of the running function
    text,           \* split_text_into_chunks: argument text (sequence of characters)
    chunk_size,     \* argument chunk_size
    chunk_overlap,  \* argument chunk_overlap
    start,          \* split_text_into_chunks: local variable start
    chunks,         \* split_text_into_chunks: local list chunks
    starts,         \* history: value of start when each chunk was appended
    file_content,   \* process_uploaded_file: argument (plain text or list of pages)
    file_chunks,    \* process_uploaded_file: returned list of chunk records
    pdf_document,   \* extract_text_from_pdf: the opened document
    pdf_result,     \* extract_text_from_pdf: returned pages or raised error
    request,        \* EvaluationService.evaluate: arguments
    response,       \* EvaluationService.evaluate: returned metrics
    clock,          \* datetime.utcnow(), in ticks
    calls,          \* the calls of evaluate in progress: position and result of each
    upload_dir,     \* StorageService: the files of the upload directory
    llm_calls,      \* number of requests sent to the language model
    conversations,  \* ConversationService._conversations: id -> list of messages
    collection      \* the vector index: the stored chunks, by id

vars == <<pc, text, chunk_size, chunk_overlap, start, chunks, starts,
          file_content, file_chunks, pdf_document, pdf_result,
          request, response, clock, calls, upload_dir, llm_calls,
          conversations, collection>>

splitVars == <<text, chunk_size, chunk_overlap, start, chunks, starts>>
uploadVars == <<file_content, file_chunks>>
pdfVars == <<pdf_document, pdf_result>>
evalVars == <<request, response>>
serviceVars == <<clock, calls, upload_dir, llm_calls, conversations, collection>>

Max(a, b) == IF a >= b THEN a ELSE b
Min(a, b) == IF a <= b THEN a ELSE b
Abs(a) == IF a >= 0 THEN a ELSE -a

(***************************************************************************)
(* Bounds of the chunker inputs.                                           *)
(***************************************************************************)
MaxLen == 5
MaxChunkSize == 4
MaxOverlap == 4

Chars == {"a", "b"}

RECURSIVE SeqsUpTo(_, _)
\* all sequences over S of length at most n
SeqsUpTo(S, n) ==
    IF n = 0 THEN {<<>>}
    ELSE LET shorter == SeqsUpTo(S, n - 1)
         IN  shorter \cup {Append(s, x) : s \in {t \in shorter : Len(t) = n - 1}, x \in S}

Texts == SeqsUpTo(Chars, MaxLen)

(***************************************************************************)
(* split_text_into_chunks (document_loader.py:32-45)                       *)
(***************************************************************************)

\* Python slice s[lo:hi] for 0 <= lo, with 0-based lo and exclusive hi
SliceDropsLast(s, lo, hi) == SubSeq(s, lo + 1, Min(hi, Len(s)) - 1)
Slice(s, lo, hi) == SubSeq(s, lo + 1, Min(hi, Len(s)))

\* the amount added to start in each iteration (line 44)
StepOfNoFloor(cs, ov) == Max(cs - ov, 0)
StepOfPlusOne(cs, ov) == Max(cs - ov, 1) + 1
StepOf(cs, ov) == Max(cs - ov, 1)

InitIdleSplit ==
    /\ text = <<>>
    /\ chunk_size = 1
    /\ chunk_overlap = 0
    /\ start = 0
    /\ chunks = <<>>
    /\ starts = <<>>

InitIdleUpload ==
    /\ file_content = <<>>
    /\ file_chunks = <<>>

InitIdlePdf ==
    /\ pdf_document = [locked |-> FALSE, lead |-> 0, pages |-> <<>>]
    /\ pdf_result = [status |-> "idle"]

InitIdleEval ==
    /\ request = [status |-> "idle"]
    /\ response = [status |-> "idle"]

InitIdleService ==
    /\ clock = 0
    /\ calls = <<>>
    /\ upload_dir = <<>>
    /\ llm_calls = 0
    /\ conversations = <<>>
    /\ collection = <<>>

InitSplit ==
    /\ pc = "loop"
    /\ text \in Texts
    /\ chunk_size \in 1..MaxChunkSize
    /\ chunk_overlap \in 0..MaxOverlap
    /\ start = 0
    /\ chunks = <<>>
    /\ starts = <<>>
    /\ InitIdleUpload /\ InitIdlePdf /\ InitIdleEval /\ InitIdleService

\* one iteration of the while loop (lines 40-44); the bound on the number of
\* chunks is never reached (SplitWithinCap)
SplitIterate ==
    /\ pc = "loop"
    /\ start < Len(text)
    /\ Len(chunks) <= MaxLen
    /\ LET end == start + chunk_size
           chunk == Slice(text, start, end)
       IN  /\ chunks' = Append(chunks, chunk)
           /\ starts' = Append(starts, start)
    /\ start' = start + StepOf(chunk_size, chunk_overlap)
    /\ UNCHANGED <<pc, text, chunk_size, chunk_overlap, uploadVars, pdfVars, evalVars, serviceVars>>

\* the loop condition fails and the function returns chunks (lines 40, 45)
SplitReturn ==
    /\ pc = "loop"
    /\ ~(start < Len(text))
    /\ pc' = "done"
    /\ UNCHANGED <<splitVars, uploadVars, pdfVars, evalVars, serviceVars>>

NextSplit == SplitIterate \/ SplitReturn

SpecSplit == InitSplit /\ [][NextSplit]_vars

FairSpecSplit == SpecSplit /\ WF_vars(NextSplit)

SplitWithinCap == Len(chunks) <= Len(text)

\* the character range [lo, hi) of the i-th returned chunk
ChunkLo(i) == starts[i]
ChunkHi(i) == starts[i] + Len(chunks[i])

\* C1: split_text_into_chunks terminates for every text, chunk_size >= 1 and
\* overlap >= 0 (also overlap >= chunk_size): the loop reaches its return.
C1_Terminates == <>(pc = "done")

C1_Witness ==
    /\ pc = "done"
    /\ chunk_overlap >= chunk_size
    /\ Len(chunks) >= 2

\* C2: every character index of the text lies in the range of at least one
\* returned chunk.
C2_Coverage ==
    pc = "done" =>
        \A i \in 0..(Len(text) - 1) :
            \E k \in 1..Len(chunks) : ChunkLo(k) <= i /\ i < ChunkHi(k)

C2_Witness ==
    /\ pc = "done"
    /\ Len(text) >= 3
    /\ Len(chunks) >= 2
    /\ chunk_overlap = 0

\* the number of characters two consecutive chunks i, i+1 have in common
Shared(i) == ChunkHi(i) - ChunkLo(i + 1)

\* C3 as stated: every chunk has at most chunk_size characters and every
\* pair of consecutive chunks, except the pair ending in the last chunk,
\* shares exactly chunk_overlap characters.
C3_Original ==
    pc = "done" =>
        /\ \A i \in 1..Len(chunks) : Len(chunks[i]) <= chunk_size
        /\ \A i \in 1..(Len(chunks) - 2) : Shared(i) = chunk_overlap

\* C3 as amended: every chunk has at most chunk_size characters, consecutive
\* chunks start max(chunk_size - overlap, 1) characters apart, and when
\* overlap < chunk_size every pair whose first chunk has the full chunk_size
\* characters shares exactly chunk_overlap characters.
C3_Amended ==
    pc = "done" =>
        /\ \A i \in 1..Len(chunks) :
              /\ Len(chunks[i]) <= chunk_size
              /\ chunks[i] = SubSeq(text, ChunkLo(i) + 1, ChunkHi(i))
        /\ \A i \in 1..(Len(chunks) - 1) :
              /\ ChunkLo(i + 1) - ChunkLo(i) = Max(chunk_size - chunk_overlap, 1)
              /\ (chunk_overlap < chunk_size /\ Len(chunks[i]) = chunk_size)
                    => Shared(i) = chunk_overlap

C3_Witness ==
    /\ pc = "done"
    /\ chunk_size = 4
    /\ chunk_overlap = 3
    /\ Len(chunks) >= 4
    /\ Len(chunks[3]) < chunk_size
    /\ Shared(1) = chunk_overlap
    /\ Shared(3) < chunk_overlap

(***************************************************************************)
(* process_uploaded_file (document_loader.py:71-110)                       *)
(***************************************************************************)
MaxPageLen == 3
MaxFilePages == 2

PageTexts == SeqsUpTo({"a"}, MaxPageLen)
PageNums == {1, 7}
FileNames == {"a.pdf"}

RECURSIVE SplitFrom(_, _, _, _)
\* the chunks the while loop appends from the value s of start on
SplitFrom(t, cs, ov, s) ==
    IF s < Len(t)
    THEN <<Slice(t, s, s + cs)>> \o SplitFrom(t, cs, ov, s + StepOf(cs, ov))
    ELSE <<>>

\* split_text_into_chunks as a function of its arguments
split_text_into_chunks(t, cs, ov) == SplitFrom(t, cs, ov, 0)

\* the loop and the function agree
SplitAgrees ==
    pc = "done" => chunks = split_text_into_chunks(text, chunk_size, chunk_overlap)

\* the chunk records appended for one page (lines 82-96)
PageChunks(page_data, filename, cs, ov) ==
    LET page_text == page_data.text
        page_num == page_data.page
        page_chunks == split_text_into_chunks(page_text, cs, ov)
    IN  [idx \in 1..Len(page_chunks) |->
            [content |-> page_chunks[idx],
             metadata |-> [source |-> filename,
                           page |-> page_num,
                           chunk_index |-> idx - 1,
                           upload_type |-> "file_upload"]]]

RECURSIVE PagesChunks(_, _, _, _)
\* the loop over the pages (lines 81-96)
PagesChunks(pages, filename, cs, ov) ==
    IF pages = <<>> THEN <<>>
    ELSE PageChunks(Head(pages), filename, cs, ov)
            \o PagesChunks(Tail(pages), filename, cs, ov)

\* the chunk records of a plain text (lines 98-109)
TextChunks(content, filename, cs, ov) ==
    LET doc_chunks == split_text_into_chunks(content, cs, ov)
    IN  [idx \in 1..Len(doc_chunks) |->
            [content |-> doc_chunks[idx],
             metadata |-> [source |-> filename,
                           chunk_index |-> idx - 1,
                           upload_type |-> "file_upload"]]]

process_uploaded_file(fc, cs, ov) ==
    IF fc.is_list
    THEN PagesChunks(fc.content, fc.filename, cs, ov)
    ELSE TextChunks(fc.content, fc.filename, cs, ov)

PageData == [text : PageTexts, page : PageNums]

FileContents ==
    [is_list : {TRUE}, content : SeqsUpTo(PageData, MaxFilePages), filename : FileNames]
        \cup [is_list : {FALSE}, content : PageTexts, filename : FileNames]

InitUpload ==
    /\ pc = "call"
    /\ file_content \in FileContents
    /\ chunk_size \in 1..MaxChunkSize
    /\ chunk_overlap \in 0..MaxOverlap
    /\ file_chunks = <<>>
    /\ text = <<>>
    /\ start = 0
    /\ chunks = <<>>
    /\ starts = <<>>
    /\ InitIdlePdf /\ InitIdleEval /\ InitIdleService

ProcessUploadedFile ==
    /\ pc = "call"
    /\ file_chunks' = process_uploaded_file(file_content, chunk_size, chunk_overlap)
    /\ pc' = "done"
    /\ UNCHANGED <<text, chunk_size, chunk_overlap, start, chunks, starts,
                   file_content, pdfVars, evalVars, serviceVars>>

NextUpload == ProcessUploadedFile

SpecUpload == InitUpload /\ [][NextUpload]_vars

\* C4: the chunk_index of the chunks of one file is unique among the chunks
\* of the same source and strictly increases in creation order.
C4_IndexUniqueIncreasing ==
    pc = "done" =>
        \A i, j \in 1..Len(file_chunks) :
            (i < j /\ file_chunks[i].metadata.source = file_chunks[j].metadata.source)
                => file_chunks[i].metadata.chunk_index < file_chunks[j].metadata.chunk_index

(***************************************************************************)
(* _extract_page_number_from_text and extract_text_from_pdf                *)
(* (document_loader.py:113-242)                                            *)
(*                                                                         *)
(* A document is a number of leading blank physical pages followed by the  *)
(* listed pages.  A page is blank, raises in get_text, or has text; a text *)
(* is its lines, and a line is the sequence of numbers the patterns of the *)
(* pattern list capture on it, in the order of the list (empty for a line  *)
(* no pattern matches).                                                    *)
(***************************************************************************)
MaxPdfPages == 3
MinPageNumber == 1
MaxPageNumber == 10000
HeaderLines == 10
FooterLines == 10
MaxOffset == 20

Prose == <<>>
BlankPage == [kind |-> "blank", lines |-> <<>>]
RaisingPage == [kind |-> "raises", lines |-> <<>>]
TextPage(lines) == [kind |-> "text", lines |-> lines]

PdfTexts ==
    {<<Prose>>, <<<<0>>>>, <<<<1>>>>, <<<<2>>>>, <<Prose, <<5>>>>,
     <<<<188>>>>, <<<<190>>>>, <<<<10001, 5>>>>}

PdfPages == {BlankPage, RaisingPage} \cup {TextPage(t) : t \in PdfTexts}

LeadingBlanks == {0, 1, 10000}

PdfDocuments ==
    [locked : BOOLEAN, lead : LeadingBlanks, pages : SeqsUpTo(PdfPages, MaxPdfPages)]

\* the range check of lines 145 and 158
InRange(n) == MinPageNumber <= n /\ n <= MaxPageNumber

RECURSIVE FirstInRange(_)
\* the first captured number that passes the range check, 0 for none
FirstInRange(captures) ==
    IF captures = <<>> THEN 0
    ELSE IF InRange(Head(captures)) THEN Head(captures)
    ELSE FirstInRange(Tail(captures))

RECURSIVE ScanLines(_)
\* the loops over lines and patterns (lines 137-148 and 151-161)
ScanLines(lines) ==
    IF lines = <<>> THEN 0
    ELSE LET n == FirstInRange(Head(lines))
         IN  IF n # 0 THEN n ELSE ScanLines(Tail(lines))

\* _extract_page_number_from_text of a non-blank text: 0 stands for None
extract_page_number_from_text(lines) ==
    LET header == SubSeq(lines, 1, Min(HeaderLines, Len(lines)))
        footer == SubSeq(lines, Max(Len(lines) - FooterLines, 0) + 1, Len(lines))
        h == ScanLines(header)
    IN  IF h # 0 THEN h ELSE ScanLines(footer)

\* the 0-based physical index of the i-th listed page
PdfPageIdx(doc, i) == doc.lead + i - 1

RECURSIVE ReadPages(_, _)
\* the loop over the physical pages (lines 189-212), up to the i-th listed
\* page: the pair of page_texts and extracted_page_numbers
ReadPages(doc, i) ==
    IF i = 0 THEN [page_texts |-> <<>>, extracted |-> <<>>]
    ELSE LET before == ReadPages(doc, i - 1)
             page == doc.pages[i]
             pdf_page_idx == PdfPageIdx(doc, i)
             num == extract_page_number_from_text(page.lines)
         IN  IF page.kind # "text" THEN before
             ELSE IF num # 0
             THEN [page_texts |-> Append(before.page_texts,
                                         [text |-> page.lines, page |-> num]),
                   extracted |-> Append(before.extracted, <<pdf_page_idx, num>>)]
             ELSE [page_texts |-> Append(before.page_texts,
                                         [text |-> page.lines, page |-> pdf_page_idx + 1]),
                   extracted |-> before.extracted]

ReadAllPagesOrFail(doc) ==
    IF \E k \in 1..Len(doc.pages) : doc.pages[k].kind = "raises"
    THEN [page_texts |-> <<>>, extracted |-> <<>>]
    ELSE ReadPages(doc, Len(doc.pages))
\* the whole loop of lines 189-212
ReadAllPages(doc) == ReadPages(doc, Len(doc.pages))

RECURSIVE SumOffsets(_)
\* sum(offsets) of line 223-224
SumOffsets(extracted) ==
    IF extracted = <<>> THEN 0
    ELSE (Head(extracted)[2] - (Head(extracted)[1] + 1)) + SumOffsets(Tail(extracted))

\* round(p / q) for q > 0 as Python rounds a float: to nearest, ties to even
RoundDiv(p, q) ==
    LET lo == p \div q
        r == p % q
    IN  IF 2 * r < q THEN lo
        ELSE IF 2 * r > q THEN lo + 1
        ELSE IF lo % 2 = 0 THEN lo ELSE lo + 1

\* abs(avg_offset) > 0.5 and abs(avg_offset) < 20 (line 227), avg = total / n
OffsetPlausibleNoUpper(total, n) == 2 * Abs(total) > n
OffsetPlausible(total, n) ==
    /\ 2 * Abs(total) > n
    /\ Abs(total) < MaxOffset * n

\* the corrected page of the entry idx (0-based) of page_texts (lines 231-238)
CorrectedPage(page_texts, idx, offset) ==
    LET page == page_texts[idx + 1].page
        pdf_index_plus_one == idx + 1
    IN  IF page = pdf_index_plus_one /\ page + offset > 0
        THEN page + offset
        ELSE page

\* the post-processing pass (lines 221-238)
ApplyOffset(page_texts, extracted) ==
    IF Len(extracted) > 0
          /\ OffsetPlausible(SumOffsets(extracted), Len(extracted))
    THEN LET offset == RoundDiv(SumOffsets(extracted), Len(extracted))
         IN  [i \in 1..Len(page_texts) |->
                 [text |-> page_texts[i].text,
                  page |-> CorrectedPage(page_texts, i - 1, offset)]]
    ELSE page_texts

extract_text_from_pdf(doc) ==
    IF doc.locked
    THEN [status |-> "error", detail |-> "PDF is encrypted and cannot be processed"]
    ELSE LET read == ReadAllPages(doc)
         IN  IF read.page_texts = <<>>
             THEN [status |-> "error", detail |-> "No text content could be extracted"]
             ELSE [status |-> "ok",
                   pages |-> ApplyOffset(read.page_texts, read.extracted)]

InitPdf ==
    /\ pc = "call"
    /\ pdf_document \in PdfDocuments
    /\ pdf_result = [status |-> "idle"]
    /\ InitIdleSplit /\ InitIdleUpload /\ InitIdleEval /\ InitIdleService

ExtractTextFromPdf ==
    /\ pc = "call"
    /\ pdf_result' = extract_text_from_pdf(pdf_document)
    /\ pc' = "done"
    /\ UNCHANGED <<splitVars, uploadVars, pdf_document, evalVars, serviceVars>>

NextPdf == ExtractTextFromPdf

SpecPdf == InitPdf /\ [][NextPdf]_vars

PdfDone == pc = "done" /\ pdf_result.status # "idle"
PdfOk == PdfDone /\ pdf_result.status = "ok"

\* the page numbers of the returned pages, in order
ResultPages == [i \in 1..Len(pdf_result.pages) |-> pdf_result.pages[i].page]

\* C5: every page number of a returned page is an integer in 1..10000.
C5_PageInRange ==
    PdfOk => \A i \in 1..Len(pdf_result.pages) :
                 pdf_result.pages[i].page \in 1..10000

\* the document of three pages reading 188, nothing, 190
Doc188 ==
    [locked |-> FALSE, lead |-> 0,
     pages |-> <<TextPage(<<<<188>>>>), TextPage(<<Prose>>), TextPage(<<<<190>>>>)>>]

\* C6 as stated: the pages of that document are numbered 188, 189, 190.
C6_Original ==
    (PdfDone /\ pdf_document = Doc188) =>
        (pdf_result.status = "ok" /\ ResultPages = <<188, 189, 190>>)

\* C6 as amended: the pages of that document are numbered 188, 2, 190: the
\* directly matched pages keep their numbers and page 2 keeps its physical
\* index, the common offset +187 not being below 20.
C6_Amended ==
    (PdfDone /\ pdf_document = Doc188) =>
        (pdf_result.status = "ok" /\ ResultPages = <<188, 2, 190>>)

C6_Witness == PdfOk /\ pdf_document = Doc188

\* the listed pages whose get_text returns non-blank text
YieldingPages(doc) ==
    IF doc.locked THEN {}
    ELSE {i \in 1..Len(doc.pages) : doc.pages[i].kind = "text"}

\* the listed pages that yield text, in document order
YieldingSeq(doc) ==
    LET Yields(i) == i \in YieldingPages(doc)
    IN  SelectSeq([i \in 1..Len(doc.pages) |-> i], Yields)

\* no number can be read from any page of the document
NoNumberAnywhere(doc) ==
    \A i \in 1..Len(doc.pages) :
        \A l \in 1..Len(doc.pages[i].lines) :
            \A c \in 1..Len(doc.pages[i].lines[l]) :
                ~(1 <= doc.pages[i].lines[l][c] /\ doc.pages[i].lines[l][c] <= 10000)

\* C7: the extraction fails exactly when no page yields non-blank text;
\* otherwise it returns one page per yielding page, raising pages being
\* skipped, and when no number can be read from any page each returned page
\* carries its fallback number, the 1-based physical index.
C7_FailsIffNoText ==
    PdfDone =>
        /\ pdf_result.status \in {"ok", "error"}
        /\ pdf_result.status = "error" <=> YieldingPages(pdf_document) = {}
        /\ pdf_result.status = "ok" =>
              /\ Len(pdf_result.pages) = Len(YieldingSeq(pdf_document))
              /\ \A i \in 1..Len(pdf_result.pages) :
                    pdf_result.pages[i].text
                        = pdf_document.pages[YieldingSeq(pdf_document)[i]].lines
              /\ NoNumberAnywhere(pdf_document) =>
                    \A i \in 1..Len(pdf_result.pages) :
                        pdf_result.pages[i].page
                            = pdf_document.lead + YieldingSeq(pdf_document)[i]

C7_Witness ==
    /\ PdfOk
    /\ \E i \in 1..Len(pdf_document.pages) : pdf_document.pages[i].kind = "raises"
    /\ NoNumberAnywhere(pdf_document)
    /\ Len(pdf_result.pages) = 2

(***************************************************************************)
(* String functions of Python and of the regular expressions used by       *)
(* infra/evaluation.py, on strings of characters.                          *)
(***************************************************************************)
Ch(s, i) == SubSeq(s, i, i)

LowerAlpha == "abcdefghijklmnopqrstuvwxyz"
UpperAlpha == "ABCDEFGHIJKLMNOPQRSTUVWXYZ"
DigitChars == {"0", "1", "2", "3", "4", "5", "6", "7", "8", "9"}
LowerChars == {Ch(LowerAlpha, i) : i \in 1..Len(LowerAlpha)}
UpperChars == {Ch(UpperAlpha, i) : i \in 1..Len(UpperAlpha)}
\* the class \w
WordChars == LowerChars \cup UpperChars \cup DigitChars \cup {"_"}
\* the class \s
SpaceChars == {" ", "\n", "\t"}
SentenceEnds == {".", "!", "?"}

\* str.lower of one character
LowerCh(c) ==
    IF c \in UpperChars
    THEN Ch(LowerAlpha, CHOOSE i \in 1..Len(UpperAlpha) : Ch(UpperAlpha, i) = c)
    ELSE c

RECURSIVE LowerFrom(_, _)
LowerFrom(s, i) == IF i > Len(s) THEN "" ELSE LowerCh(Ch(s, i)) \o LowerFrom(s, i + 1)

\* str.lower
Lower(s) == LowerFrom(s, 1)

RECURSIVE LStrip(_)
LStrip(s) ==
    IF s # "" /\ Ch(s, 1) \in SpaceChars THEN LStrip(SubSeq(s, 2, Len(s))) ELSE s

RECURSIVE RStrip(_)
RStrip(s) ==
    IF s # "" /\ Ch(s, Len(s)) \in SpaceChars THEN RStrip(SubSeq(s, 1, Len(s) - 1)) ELSE s

\* str.strip
Strip(s) == RStrip(LStrip(s))

\* the Python test  n in h  of two strings
Contains(h, n) ==
    \/ n = ""
    \/ \E i \in 1..(Len(h) - Len(n) + 1) : SubSeq(h, i, i + Len(n) - 1) = n

\* h[i:] starts with n (i is 1-based)
StartsAt(h, i, n) == i + Len(n) - 1 <= Len(h) /\ SubSeq(h, i, i + Len(n) - 1) = n

\* c is in the class S, or outside it when neg
InClass(c, S, neg) == (c \in S) # neg

RECURSIVE RunEnd(_, _, _, _)
\* the last position of the run of class characters that starts at i (i - 1 if none)
RunEnd(s, i, S, neg) ==
    IF i <= Len(s) /\ InClass(Ch(s, i), S, neg) THEN RunEnd(s, i + 1, S, neg) ELSE i - 1

RECURSIVE RunsFrom(_, _, _, _)
\* the maximal runs of class characters of s from position i on, in order
RunsFrom(s, i, S, neg) ==
    IF i > Len(s) THEN <<>>
    ELSE IF InClass(Ch(s, i), S, neg)
    THEN LET j == RunEnd(s, i, S, neg)
         IN  <<SubSeq(s, i, j)>> \o RunsFrom(s, j + 1, S, neg)
    ELSE RunsFrom(s, i + 1, S, neg)

\* str.split(): the whitespace-separated tokens
SplitWhitespace(s) == RunsFrom(s, 1, SpaceChars, TRUE)

Range(f) == {f[i] : i \in DOMAIN f}

\* set(re.findall(r'\b\w{3,}\b', s)): the maximal word runs of 3 or more characters
MinWordLen == 3
WordSet(s) == {w \in Range(RunsFrom(s, 1, WordChars, FALSE)) : Len(w) >= MinWordLen}

RECURSIVE FirstIndex(_, _, _)
\* the first position >= i of s holding the character c, 0 if there is none
FirstIndex(s, i, c) ==
    IF i > Len(s) THEN 0
    ELSE IF Ch(s, i) = c THEN i
    ELSE FirstIndex(s, i + 1, c)

\* the token (\d+|\?) read at position i: its last position, 0 if there is none
PageTokenEnd(s, i) ==
    IF i <= Len(s) /\ Ch(s, i) = "?" THEN i
    ELSE LET j == RunEnd(s, i, DigitChars, FALSE)
         IN  IF j >= i THEN j ELSE 0

\* int() of a string of digits
RECURSIVE IntOf(_)
IntOf(s) ==
    IF s = "" THEN 0
    ELSE 10 * IntOf(SubSeq(s, 1, Len(s) - 1))
            + (CHOOSE d \in 0..9 : Ch("0123456789", d + 1) = Ch(s, Len(s)))

\* str.isdigit
IsDigits(s) == s # "" /\ \A i \in 1..Len(s) : Ch(s, i) \in DigitChars

RECURSIVE StrOfNat(_)
\* str() of a natural number
StrOfNat(n) ==
    IF n < 10 THEN Ch("0123456789", n + 1)
    ELSE StrOfNat(n \div 10) \o Ch("0123456789", (n % 10) + 1)

(***************************************************************************)
(* Citation accuracy (evaluation.py:11-201)                                *)
(*                                                                         *)
(* A dict is a record; dict.get(key, default) is Get.  A float score is an *)
(* integer number of thousandths; a ratio of two counts is the record of   *)
(* its numerator and denominator.                                          *)
(***************************************************************************)
Get(rec, key, default) == IF key \in DOMAIN rec THEN rec[key] ELSE default
Has(rec, key) == key \in DOMAIN rec

\* a / b of two counts, and the literal 0.0
Ratio(a, b) == [num |-> a, den |-> b]
Zero == Ratio(0, 1)

\* one match of r'\[Source:\s*([^,]+),\s*Page:\s*(\d+|\?)\]' (IGNORECASE)
\* starting at position i, or a record with ok = FALSE
MatchCitationAt(s, i) ==
    LET j0 == i + 8
        k == FirstIndex(s, j0, ",")
        p == RunEnd(s, k + 1, SpaceChars, FALSE) + 1
        q == RunEnd(s, p + 5, SpaceChars, FALSE) + 1
        e == PageTokenEnd(s, q)
    IN  IF /\ i + 7 <= Len(s)
           /\ Ch(s, i) = "["
           /\ Lower(SubSeq(s, i, i + 7)) = "[source:"
           /\ k > j0
           /\ p + 4 <= Len(s)
           /\ Lower(SubSeq(s, p, p + 4)) = "page:"
           /\ e # 0
           /\ e + 1 <= Len(s)
           /\ Ch(s, e + 1) = "]"
        THEN [ok |-> TRUE,
              source |-> Strip(SubSeq(s, j0, k - 1)),
              page |-> Strip(SubSeq(s, q, e)),
              full_match |-> SubSeq(s, i, e + 1),
              end |-> e + 1]
        ELSE [ok |-> FALSE]

RECURSIVE CitationsFrom(_, _)
\* re.finditer: the matches from position i on, in order, not overlapping
CitationsFrom(s, i) ==
    IF i > Len(s) THEN <<>>
    ELSE LET m == MatchCitationAt(s, i)
         IN  IF m.ok
             THEN <<[source |-> m.source, page |-> m.page, full_match |-> m.full_match]>>
                     \o CitationsFrom(s, m.end + 1)
             ELSE CitationsFrom(s, i + 1)

extract_citations(answer) == CitationsFrom(answer, 1)

\* metadata.get('source', 'Unknown') of a chunk (lines 41-42)
ChunkSource(chunk) == Get(Get(chunk, "metadata", <<>>), "source", "Unknown")

\* the keys of the dict built by get_available_sources
ContextSources(context_chunks) ==
    {ChunkSource(context_chunks[i]) : i \in 1..Len(context_chunks)}

\* get_available_sources: source -> set of the page strings str(page).strip()
get_available_sources(context_chunks) ==
    [src \in ContextSources(context_chunks) |->
        {Strip(StrOfNat(context_chunks[i].metadata.page)) :
            i \in {n \in 1..Len(context_chunks) :
                      /\ ChunkSource(context_chunks[n]) = src
                      /\ Has(Get(context_chunks[n], "metadata", <<>>), "page")}}]

RunStartOne(s, j, S) == IF j >= 1 /\ Ch(s, j) \in S THEN j ELSE j + 1
RECURSIVE RunStart(_, _, _)
\* the first position of the run of characters of S that ends at j (j + 1 if none)
RunStart(s, j, S) ==
    IF j >= 1 /\ Ch(s, j) \in S THEN RunStart(s, j - 1, S) ELSE j + 1

\* re.match(r'^(.+?)\s*\(Page\s+(\d+|\?)\)$', source_str.strip()) and the
\* tuple appended to source_page_pairs (lines 83-92)
ParseProvided(source_str) ==
    LET s == Strip(source_str)
        n == Len(s)
        a == IF n >= 2 /\ Ch(s, n - 1) = "?" THEN n - 1 ELSE RunStart(s, n - 1, DigitChars)
        b == RunStart(s, a - 1, SpaceChars)
        prefix == SubSeq(s, 1, b - 6)
        group1 == RStrip(prefix)
    IN  IF /\ n >= 1
           /\ Ch(s, n) = ")"
           /\ a <= n - 1
           /\ b <= a - 1
           /\ b - 5 >= 1
           /\ SubSeq(s, b - 5, b - 1) = "(Page"
           /\ b - 6 >= 1
           /\ ~Contains(group1, "\n")
        THEN [source |-> Strip(group1), has_page |-> TRUE,
              page |-> Strip(SubSeq(s, a, n - 1)), original |-> source_str]
        ELSE [source |-> Strip(source_str), has_page |-> FALSE,
              page |-> "", original |-> source_str]

\* the page matches a known page as a string or as an integer (lines 112-127)
PageMatchesStringOnly(page, context_pages) == Strip(page) \in context_pages
PageMatches(page, context_pages) ==
    LET page_str == Strip(page)
        context_pages_ints == {IntOf(p) : p \in {x \in context_pages : IsDigits(x)}}
    IN  \/ page_str \in context_pages
        \/ IsDigits(page_str) /\ IntOf(page_str) \in context_pages_ints

\* the value of is_valid after the body of the loop of lines 98-140
PairValidAnyPage(pair, available_sources) == pair.source \in DOMAIN available_sources
PairValid(pair, available_sources) ==
    IF pair.source \in DOMAIN available_sources
    THEN LET context_pages == available_sources[pair.source]
         IN  IF pair.has_page
             THEN IF pair.page = "?" THEN TRUE
                  ELSE IF context_pages # {} THEN PageMatches(pair.page, context_pages)
                  ELSE TRUE
             ELSE TRUE
    ELSE FALSE

\* the body of the loop appends original_str to invalid_citations (lines 129-139)
PairAppendedInvalidUnknownOnly(pair, available_sources) ==
    pair.source \notin DOMAIN available_sources
PairAppendedInvalid(pair, available_sources) ==
    IF pair.source \in DOMAIN available_sources
    THEN /\ pair.has_page
         /\ pair.page # "?"
         /\ available_sources[pair.source] # {}
         /\ ~PageMatches(pair.page, available_sources[pair.source])
    ELSE TRUE

RECURSIVE CountTrue(_)
CountTrue(flags) ==
    IF flags = <<>> THEN 0
    ELSE (IF Head(flags) THEN 1 ELSE 0) + CountTrue(Tail(flags))

\* list(context_sources - names) when the set iterates in the order `order`
MissingSourcesUnfiltered(order, names) == order
MissingSources(order, names) ==
    LET Missing(src) == src \notin names
    IN  SelectSeq(order, Missing)

\* the branch of the explicit sources (lines 80-158)
CitationAccuracyProvided(context_chunks, provided_sources, order) ==
    LET available_sources == get_available_sources(context_chunks)
        source_page_pairs ==
            [i \in 1..Len(provided_sources) |-> ParseProvided(provided_sources[i])]
        valid_citations ==
            CountTrue([i \in 1..Len(source_page_pairs) |->
                          PairValid(source_page_pairs[i], available_sources)])
        Invalid(pair) == PairAppendedInvalid(pair, available_sources)
        invalid_pairs == SelectSeq(source_page_pairs, Invalid)
        provided_source_names == {source_page_pairs[i].source : i \in 1..Len(source_page_pairs)}
        total_citations == Len(provided_sources)
    IN  [total_citations |-> total_citations,
         valid_citations |-> valid_citations,
         citation_accuracy |->
             IF total_citations > 0 THEN Ratio(valid_citations, total_citations) ELSE Zero,
         missing_sources |-> MissingSources(order, provided_source_names),
         invalid_citations |-> [i \in 1..Len(invalid_pairs) |-> invalid_pairs[i].original]]

\* a citation of the answer text is counted valid (lines 169-174)
CitationValid(citation, available_sources) ==
    /\ citation.source \in DOMAIN available_sources
    /\ LET page_str == Strip(citation.page)
       IN  \/ page_str = "?"
           \/ Cardinality(available_sources[citation.source]) = 0
           \/ page_str \in available_sources[citation.source]

\* the fallback branch of the citations of the answer text (lines 161-192)
CitationAccuracyInline(context_chunks, citations, order) ==
    LET available_sources == get_available_sources(context_chunks)
        valid_citations ==
            CountTrue([i \in 1..Len(citations) |->
                          CitationValid(citations[i], available_sources)])
        Invalid(citation) == ~CitationValid(citation, available_sources)
        invalid == SelectSeq(citations, Invalid)
        cited_sources == {citations[i].source : i \in 1..Len(citations)}
        total_citations == Len(citations)
    IN  [total_citations |-> total_citations,
         valid_citations |-> valid_citations,
         citation_accuracy |->
             IF total_citations > 0 THEN Ratio(valid_citations, total_citations) ELSE Zero,
         missing_sources |-> MissingSources(order, cited_sources),
         invalid_citations |-> [i \in 1..Len(invalid) |-> invalid[i].full_match]]

\* the result when there are neither sources nor citations (lines 194-201)
CitationAccuracyNoneNothingMissing(order) ==
    [total_citations |-> 0,
     valid_citations |-> 0,
     citation_accuracy |-> Zero,
     missing_sources |-> <<>>,
     invalid_citations |-> <<>>]
CitationAccuracyNone(order) ==
    [total_citations |-> 0,
     valid_citations |-> 0,
     citation_accuracy |-> Zero,
     missing_sources |-> order,
     invalid_citations |-> <<>>]

\* evaluate_citation_accuracy; order is the iteration order of the set of
\* the context sources, which the language leaves open
evaluate_citation_accuracy(answer, context_chunks, provided_sources, order) ==
    LET citations == extract_citations(answer)
    IN  IF provided_sources # <<>>
        THEN CitationAccuracyProvided(context_chunks, provided_sources, order)
        ELSE IF citations # <<>>
        THEN CitationAccuracyInline(context_chunks, citations, order)
        ELSE CitationAccuracyNone(order)

(***************************************************************************)
(* Context relevance (evaluation.py:204-257)                               *)
(***************************************************************************)
SimilarityThreshold == 500
One == 1000

\* the similarity collected for one chunk (lines 226-233): <<s>>, or <<>>
\* when the chunk has neither a usable similarity nor a usable distance
ChunkSimilarityUnclamped(chunk) ==
    IF Has(chunk, "similarity") THEN <<chunk.similarity>>
    ELSE IF Has(chunk, "distance") THEN <<One - chunk.distance>>
    ELSE <<>>
ChunkSimilarity(chunk) ==
    IF Has(chunk, "similarity") THEN <<chunk.similarity>>
    ELSE IF Has(chunk, "distance") THEN <<Max(0, One - chunk.distance)>>
    ELSE <<>>

RECURSIVE Similarities(_)
\* the list similarities after the loop of lines 224-233
Similarities(context_chunks) ==
    IF context_chunks = <<>> THEN <<>>
    ELSE ChunkSimilarity(Head(context_chunks)) \o Similarities(Tail(context_chunks))

RECURSIVE Sum(_)
Sum(xs) == IF xs = <<>> THEN 0 ELSE Head(xs) + Sum(Tail(xs))

SeqMin(xs) == CHOOSE x \in Range(xs) : \A y \in Range(xs) : x <= y
SeqMax(xs) == CHOOSE x \in Range(xs) : \A y \in Range(xs) : x >= y

\* the chunk counts as relevant (line 249)
AtThresholdStrict(sim, threshold) == sim > threshold
AtThreshold(sim, threshold) == sim >= threshold

evaluate_context_relevance(context_chunks, similarity_threshold) ==
    LET similarities == Similarities(context_chunks)
        Relevant(sim) == AtThreshold(sim, similarity_threshold)
    IN  IF context_chunks = <<>> \/ similarities = <<>>
        THEN [average_similarity |-> 0,
              min_similarity |-> 0,
              max_similarity |-> 0,
              relevant_chunks |-> 0,
              total_chunks |-> Len(context_chunks)]
        ELSE [average_similarity |-> RoundDiv(Sum(similarities), Len(similarities)),
              min_similarity |-> SeqMin(similarities),
              max_similarity |-> SeqMax(similarities),
              relevant_chunks |-> Len(SelectSeq(similarities, Relevant)),
              total_chunks |-> Len(context_chunks)]

(***************************************************************************)
(* Answer faithfulness (evaluation.py:260-379)                             *)
(***************************************************************************)
MinClaimLen == 20
MinSupportLen == 10
MinPhraseLen == 10
PhraseWords == 3
OverlapNum == 2
OverlapDen == 5
MaxUnsupported == 5

StopWords ==
    {"the", "a", "an", "and", "or", "but", "in", "on", "at", "to", "for", "of",
     "with", "by", "from", "is", "was", "are", "were", "be", "been", "have",
     "has", "had", "do", "does", "did", "will", "would", "could", "should",
     "may", "might", "must", "can"}

\* the alternatives of the prefix pattern of line 278, in order
ClaimPrefixes == <<"according to", "based on", "the document", "it", "this">>

RECURSIVE RemoveMarkersFrom(_, _)
\* re.sub(r'\[Source:[^\]]+\]', '', answer) from position i on (line 267)
RemoveMarkersFrom(s, i) ==
    IF i > Len(s) THEN ""
    ELSE LET k == FirstIndex(s, i + 8, "]")
         IN  IF StartsAt(s, i, "[Source:") /\ k > i + 8
             THEN RemoveMarkersFrom(s, k + 1)
             ELSE Ch(s, i) \o RemoveMarkersFrom(s, i + 1)

\* re.sub of the prefix pattern (IGNORECASE), then strip (line 278)
RemovePrefix(sentence) ==
    LET low == Lower(sentence)
        hits == {i \in 1..Len(ClaimPrefixes) : StartsAt(low, 1, ClaimPrefixes[i])}
    IN  IF hits = {} THEN Strip(sentence)
        ELSE LET first == CHOOSE i \in hits : \A j \in hits : i <= j
             IN  Strip(SubSeq(sentence, Len(ClaimPrefixes[first]) + 1, Len(sentence)))

RECURSIVE ClaimsOf(_)
\* the loop over the sentences (lines 273-280)
ClaimsOf(sentences) ==
    IF sentences = <<>> THEN <<>>
    ELSE LET sentence == Strip(Head(sentences))
             rest == ClaimsOf(Tail(sentences))
         IN  IF /\ Len(sentence) > MinClaimLen
                /\ Ch(sentence, Len(sentence)) # "?"
                /\ Len(RemovePrefix(sentence)) > MinClaimLen
             THEN <<RemovePrefix(sentence)>> \o rest
             ELSE rest

\* extract_claims: re.split(r'[.!?]+') yields the stretches between the
\* runs of sentence ends; the empty ones do not pass the length filter
extract_claims(answer) ==
    ClaimsOf(RunsFrom(RemoveMarkersFrom(answer, 1), 1, SentenceEnds, TRUE))

\* the words of a text that are no stop words (lines 298-299, 310-311)
MeaningfulWords(low) == {w \in WordSet(low) : w \notin StopWords /\ Len(w) > 2}

\* ' '.join(tokens[i:i+3]) for the 3-word windows, kept if longer than 10
ClaimPhrases(claim_lower) ==
    LET claim_tokens == SplitWhitespace(claim_lower)
    IN  {phrase \in {claim_tokens[i] \o " " \o claim_tokens[i + 1] \o " " \o claim_tokens[i + 2] :
                        i \in 1..(Len(claim_tokens) - (PhraseWords - 1))} :
            Len(phrase) > MinPhraseLen}

IsWordAt(s, i) == i >= 1 /\ i <= Len(s) /\ Ch(s, i) \in WordChars

RECURSIVE CapitalizedEnd(_, _)
\* the end of the longest match of (?:\s+[A-Z][a-z]+)*\b after a
\* capitalised word ending at j; 0 if there is none
CapitalizedEnd(s, j) ==
    LET r == RunEnd(s, j + 1, SpaceChars, FALSE)
        j2 == RunEnd(s, r + 2, LowerChars, FALSE)
        further == IF r >= j + 1 /\ r + 1 <= Len(s) /\ Ch(s, r + 1) \in UpperChars /\ j2 >= r + 2
                   THEN CapitalizedEnd(s, j2)
                   ELSE 0
    IN  IF further # 0 THEN further
        ELSE IF ~IsWordAt(s, j + 1) THEN j
        ELSE 0

\* the end of a match of \b\d+\b|\b[A-Z][a-z]+(?:\s+[A-Z][a-z]+)*\b at i; 0 if none
TermEndAt(s, i) ==
    LET d == RunEnd(s, i, DigitChars, FALSE)
        w == RunEnd(s, i + 1, LowerChars, FALSE)
    IN  IF IsWordAt(s, i - 1) THEN 0
        ELSE IF Ch(s, i) \in DigitChars
        THEN IF ~IsWordAt(s, d + 1) THEN d ELSE 0
        ELSE IF Ch(s, i) \in UpperChars /\ w >= i + 1 THEN CapitalizedEnd(s, w)
        ELSE 0

RECURSIVE TermsFrom(_, _)
\* re.findall of the pattern of line 334 from position i on
TermsFrom(s, i) ==
    IF i > Len(s) THEN <<>>
    ELSE LET e == TermEndAt(s, i)
         IN  IF e # 0 THEN <<SubSeq(s, i, e)>> \o TermsFrom(s, e + 1)
             ELSE TermsFrom(s, i + 1)

ImportantTerms(claim) == TermsFrom(claim, 1)

\* (chunk.get('text') or chunk.get('content') or '').lower() (line 306)
ChunkText(chunk) ==
    Lower(IF Get(chunk, "text", "") # "" THEN chunk.text ELSE Get(chunk, "content", ""))

\* the overlap ratio reaches 0.4 (lines 314-315, 330)
EnoughOverlapHalf(claim_words, chunk_words) ==
    2 * Cardinality(claim_words \cap chunk_words) >= Cardinality(claim_words)
EnoughOverlap(claim_words, chunk_words) ==
    OverlapDen * Cardinality(claim_words \cap chunk_words)
        >= OverlapNum * Cardinality(claim_words)

\* the body of the loop over the chunks returns True (lines 306-338)
ChunkSupportsPhraseOnly(claim, chunk) ==
    /\ ChunkText(chunk) # ""
    /\ \E phrase \in ClaimPhrases(Strip(Lower(claim))) : Contains(ChunkText(chunk), phrase)
ChunkSupports(claim, chunk) ==
    LET claim_lower == Strip(Lower(claim))
        claim_words == MeaningfulWords(claim_lower)
        chunk_text == ChunkText(chunk)
        chunk_words == MeaningfulWords(chunk_text)
        important_terms == ImportantTerms(claim)
    IN  /\ chunk_text # ""
        /\ \/ \E phrase \in ClaimPhrases(claim_lower) : Contains(chunk_text, phrase)
           \/ EnoughOverlap(claim_words, chunk_words)
           \/ \E i \in 1..Len(important_terms) : Contains(chunk_text, Lower(important_terms[i]))

AnyChunkSupportsEvery(claim, context_chunks) ==
    /\ context_chunks # <<>>
    /\ \A i \in 1..Len(context_chunks) : ChunkSupports(claim, context_chunks[i])
RECURSIVE AnyChunkSupports(_, _)
\* the loop over the chunks (lines 305-340)
AnyChunkSupports(claim, context_chunks) ==
    IF context_chunks = <<>> THEN FALSE
    ELSE IF ChunkSupports(claim, Head(context_chunks)) THEN TRUE
    ELSE AnyChunkSupports(claim, Tail(context_chunks))

check_claim_support(claim, context_chunks) ==
    IF claim = "" \/ Len(Strip(claim)) < MinSupportLen THEN FALSE
    ELSE IF MeaningfulWords(Strip(Lower(claim))) = {} THEN FALSE
    ELSE AnyChunkSupports(claim, context_chunks)

evaluate_answer_faithfulness(answer, context_chunks) ==
    LET claims == extract_claims(answer)
        total_claims == Len(claims)
        supported == [i \in 1..total_claims |-> check_claim_support(claims[i], context_chunks)]
        IndexPairs == [i \in 1..total_claims |-> <<claims[i], supported[i]>>]
        IsSupported(pair) == pair[2]
        IsUnsupported(pair) == ~pair[2]
        supported_pairs == SelectSeq(IndexPairs, IsSupported)
        unsupported_pairs == SelectSeq(IndexPairs, IsUnsupported)
        supported_claims == [i \in 1..Len(supported_pairs) |-> supported_pairs[i][1]]
        unsupported_claims == [i \in 1..Len(unsupported_pairs) |-> unsupported_pairs[i][1]]
    IN  IF claims = <<>>
        THEN [faithfulness_score |-> Zero,
              supported_claims |-> 0,
              total_claims |-> 0,
              unsupported_claims |-> <<>>]
        ELSE [faithfulness_score |->
                  IF total_claims > 0 THEN Ratio(Len(supported_claims), total_claims) ELSE Zero,
              supported_claims |-> Len(supported_claims),
              total_claims |-> total_claims,
              unsupported_claims |->
                  SubSeq(unsupported_claims, 1, Min(MaxUnsupported, Len(unsupported_claims)))]

(***************************************************************************)
(* compute_overall_score (evaluation.py:382-413) and                       *)
(* EvaluationService.evaluate (evaluation_service.py:23-74)                *)
(***************************************************************************)
WeightCitation == 300
WeightRelevance == 200
WeightFaithfulness == 500

\* round(overall, 3) in thousandths, for the ratios c and f and the average
\* similarity r in thousandths: the weights are thousandths too
WeightedScoreEqualWeights(c, r, f) ==
    RoundDiv(c.num * f.den * One + r * c.den * f.den + f.num * c.den * One,
             3 * c.den * f.den)
WeightedScore(c, r, f) ==
    RoundDiv(WeightCitation * c.num * f.den * One
                + WeightRelevance * r * c.den * f.den
                + WeightFaithfulness * f.num * c.den * One,
             One * c.den * f.den)

compute_overall_score(citation_accuracy, context_relevance, answer_faithfulness) ==
    WeightedScore(citation_accuracy.citation_accuracy,
                  context_relevance.average_similarity,
                  answer_faithfulness.faithfulness_score)

\* EvaluationService.evaluate: the metrics of the returned response
evaluate(req, order) ==
    LET citation_accuracy ==
            evaluate_citation_accuracy(req.answer, req.context_chunks, req.sources, order)
        context_relevance ==
            evaluate_context_relevance(req.context_chunks, SimilarityThreshold)
        answer_faithfulness ==
            evaluate_answer_faithfulness(req.answer, req.context_chunks)
    IN  [status |-> "ok",
         citation_accuracy |-> citation_accuracy,
         context_relevance |-> context_relevance,
         answer_faithfulness |-> answer_faithfulness,
         overall_score |->
             compute_overall_score(citation_accuracy, context_relevance, answer_faithfulness)]

\* the orders in which a set can iterate
Orders(S) ==
    {o \in [1..Cardinality(S) -> S] : \A i, j \in 1..Cardinality(S) : o[i] = o[j] => i = j}

(***************************************************************************)
(* Inputs of the evaluation.                                               *)
(***************************************************************************)
MaxPassages == 2
MaxSources == 2

TreatyText == "The treaty was signed in 1815 at the congress."
GrainText == "Grain prices rose sharply."

EvalPassages ==
    {[text |-> TreatyText, metadata |-> [source |-> "a.pdf", page |-> 5], similarity |-> 810],
     [text |-> GrainText, metadata |-> [source |-> "a.pdf", page |-> 6], similarity |-> 400],
     [content |-> TreatyText, metadata |-> [source |-> "b.pdf"], distance |-> 300],
     [text |-> GrainText, metadata |-> [source |-> "b.pdf"], similarity |-> 1500]}

EvalAnswers ==
    {"The treaty was signed in 1815.",
     "Paris hosted a peace congress. Grain prices rose sharply in winter.",
     "See [Source: a.pdf, Page: 05] and [Source: b.pdf, Page: ?]."}

EvalEntries == {"a.pdf (Page 5)", "d.pdf"}

EvalRequests ==
    [answer : EvalAnswers,
     context_chunks : SeqsUpTo(EvalPassages, MaxPassages),
     sources : SeqsUpTo(EvalEntries, MaxSources)]

InitEval ==
    /\ pc = "call"
    /\ request \in EvalRequests
    /\ response = [status |-> "idle"]
    /\ InitIdleSplit /\ InitIdleUpload /\ InitIdlePdf /\ InitIdleService

Evaluate ==
    /\ pc = "call"
    /\ \E order \in Orders(ContextSources(request.context_chunks)) :
          response' = evaluate(request, order)
    /\ pc' = "done"
    /\ UNCHANGED <<splitVars, uploadVars, pdfVars, request, serviceVars>>

NextEval == Evaluate

SpecEval == InitEval /\ [][NextEval]_vars

EvalDone == pc = "done" /\ response.status = "ok"

InUnit(ratio) == 0 <= ratio.num /\ ratio.num <= ratio.den

\* C8: citation_accuracy, average_similarity, faithfulness_score and
\* overall_score of every response lie in [0,1].
C8_ScoresInUnit ==
    EvalDone =>
        /\ InUnit(response.citation_accuracy.citation_accuracy)
        /\ response.context_relevance.average_similarity \in 0..1000
        /\ InUnit(response.answer_faithfulness.faithfulness_score)
        /\ response.overall_score \in 0..1000

\* C9: the overall score is 0.3 * citation_accuracy + 0.2 * average_similarity
\* + 0.5 * faithfulness_score of the sub-metrics of the same response, rounded
\* to 3 decimals: it is within half a thousandth of the weighted sum, and the
\* weights sum to 1.
C9_WeightedSum ==
    EvalDone =>
        LET c == response.citation_accuracy.citation_accuracy
            r == response.context_relevance.average_similarity
            f == response.answer_faithfulness.faithfulness_score
            \* the weighted sum in thousandths is exact / scale
            scale == 10 * c.den * f.den
            exact == 3 * 1000 * c.num * f.den + 2 * r * c.den * f.den + 5 * 1000 * f.num * c.den
        IN  /\ 2 * Abs(response.overall_score * scale - exact) <= scale
            /\ WeightCitation + WeightRelevance + WeightFaithfulness = 1000

C9_Witness ==
    /\ EvalDone
    /\ response.citation_accuracy.citation_accuracy = Ratio(1, 2)
    /\ response.answer_faithfulness.faithfulness_score = Ratio(1, 2)
    /\ response.context_relevance.average_similarity = 605
    /\ response.overall_score = 521

(***************************************************************************)
(* evaluate_citation_accuracy on its own.                                  *)
(***************************************************************************)
CitationChunks ==
    {[text |-> GrainText, metadata |-> [source |-> "a.pdf", page |-> 5]],
     [text |-> GrainText, metadata |-> [source |-> "a.pdf", page |-> 6]],
     [text |-> GrainText, metadata |-> [source |-> "b.pdf"]],
     [text |-> GrainText, metadata |-> [source |-> "c.pdf", page |-> 6]]}

CitationAnswers ==
    {"Grain prices rose sharply.",
     "See [Source: a.pdf, Page: 05] and [Source: b.pdf, Page: ?]."}

ProvidedEntries ==
    {"a.pdf (Page 5)", "a.pdf (Page 05)", "a.pdf (Page 9)", "a.pdf", "b.pdf",
     "b.pdf (Page 7)", "c.pdf (Page ?)"}

CitationRequests ==
    [answer : CitationAnswers,
     context_chunks : SeqsUpTo(CitationChunks, MaxPassages),
     sources : SeqsUpTo(ProvidedEntries, MaxSources)]

InitCitation ==
    /\ pc = "call"
    /\ request \in CitationRequests
    /\ response = [status |-> "idle"]
    /\ InitIdleSplit /\ InitIdleUpload /\ InitIdlePdf /\ InitIdleService

EvaluateCitationAccuracy ==
    /\ pc = "call"
    /\ \E order \in Orders(ContextSources(request.context_chunks)) :
          response' = [status |-> "citation",
                       citation_accuracy |->
                           evaluate_citation_accuracy(request.answer, request.context_chunks,
                                                      request.sources, order)]
    /\ pc' = "done"
    /\ UNCHANGED <<splitVars, uploadVars, pdfVars, request, serviceVars>>

NextCitation == EvaluateCitationAccuracy

SpecCitation == InitCitation /\ [][NextCitation]_vars

CitationDone == pc = "done" /\ response.status = "citation"

\* the pages of the retrieved passages of source src
KnownPages(src) ==
    {request.context_chunks[i].metadata.page :
        i \in {n \in 1..Len(request.context_chunks) :
                  /\ request.context_chunks[n].metadata.source = src
                  /\ "page" \in DOMAIN request.context_chunks[n].metadata}}

\* the rule of C10 for the provided entry number i
EntryValidByRule(i) ==
    LET pair == ParseProvided(request.sources[i])
    IN  /\ \E n \in 1..Len(request.context_chunks) :
              request.context_chunks[n].metadata.source = pair.source
        /\ \/ ~pair.has_page
           \/ pair.page = "?"
           \/ KnownPages(pair.source) = {}
           \/ \E pg \in KnownPages(pair.source) :
                 \/ StrOfNat(pg) = pair.page
                 \/ IsDigits(pair.page) /\ IntOf(pair.page) = pg

\* C10: on the explicit-sources path an entry is counted valid iff its
\* source is among the sources of the passages and it has no page, or the
\* page "?", or the source has no known pages, or the page token equals a
\* known page as a string or as an integer; the accuracy is the number of
\* valid entries divided by the number of entries.
C10_ValidityRule ==
    (CitationDone /\ request.sources # <<>>) =>
        LET n == Len(request.sources)
            valid == {i \in 1..n : EntryValidByRule(i)}
            IsInvalid(i) == i \notin valid
            invalid == SelectSeq([i \in 1..n |-> i], IsInvalid)
            acc == response.citation_accuracy
        IN  /\ acc.total_citations = n
            /\ acc.valid_citations = Cardinality(valid)
            /\ acc.invalid_citations = [k \in 1..Len(invalid) |-> request.sources[invalid[k]]]
            /\ acc.citation_accuracy.num * n = Cardinality(valid) * acc.citation_accuracy.den

\* the example of C10: available {a.pdf: {5, 6}}, ["a.pdf (Page 5)", "b.pdf"] scores 1/2
C10_Witness ==
    /\ CitationDone
    /\ request.sources = <<"a.pdf (Page 5)", "b.pdf">>
    /\ ContextSources(request.context_chunks) = {"a.pdf"}
    /\ KnownPages("a.pdf") = {5, 6}
    /\ response.citation_accuracy.citation_accuracy = Ratio(1, 2)
    /\ response.citation_accuracy.invalid_citations = <<"b.pdf">>

\* the source names of the provided entries, as the entries are parsed
ProvidedNames == {ParseProvided(request.sources[i]).source : i \in 1..Len(request.sources)}

\* C11: on the explicit-sources path missing_sources holds exactly the
\* sources of the retrieved passages that are not the source name of any
\* provided entry, each once, whether or not the entries given for other
\* sources are valid.
C11_MissingSources ==
    (CitationDone /\ request.sources # <<>>) =>
        LET missing == response.citation_accuracy.missing_sources
            expected == ContextSources(request.context_chunks) \ ProvidedNames
        IN  /\ Range(missing) = expected
            /\ Len(missing) = Cardinality(expected)

\* b.pdf is missing while the only entry, for a.pdf, is invalid
C11_Witness ==
    /\ CitationDone
    /\ request.sources = <<"a.pdf (Page 9)">>
    /\ ContextSources(request.context_chunks) = {"a.pdf", "b.pdf"}
    /\ KnownPages("a.pdf") = {5}
    /\ response.citation_accuracy.valid_citations = 0
    /\ response.citation_accuracy.missing_sources = <<"b.pdf">>

\* C12: without provided sources and without a citation marker in the answer
\* the result has total_citations 0, valid_citations 0, accuracy 0, no
\* invalid citations, and every source of the retrieved passages is missing.
C12_NothingProvided ==
    (CitationDone /\ request.sources = <<>> /\ extract_citations(request.answer) = <<>>) =>
        LET acc == response.citation_accuracy
            expected == ContextSources(request.context_chunks)
        IN  /\ acc.total_citations = 0
            /\ acc.valid_citations = 0
            /\ acc.citation_accuracy.num = 0
            /\ acc.invalid_citations = <<>>
            /\ Range(acc.missing_sources) = expected
            /\ Len(acc.missing_sources) = Cardinality(expected)

C12_Witness ==
    /\ CitationDone
    /\ request.sources = <<>>
    /\ request.answer = "Grain prices rose sharply."
    /\ ContextSources(request.context_chunks) = {"a.pdf", "b.pdf"}
    /\ Range(response.citation_accuracy.missing_sources) = {"a.pdf", "b.pdf"}
    /\ response.citation_accuracy.total_citations = 0

(***************************************************************************)
(* evaluate_context_relevance on its own.                                  *)
(***************************************************************************)
MaxScored == 3

\* passages with a similarity, with only a distance, and with neither
ScoredPassages ==
    {[text |-> GrainText, similarity |-> 900],
     [text |-> GrainText, similarity |-> 400],
     [text |-> GrainText, similarity |-> 700],
     [text |-> GrainText, similarity |-> 500],
     [text |-> GrainText, distance |-> 300],
     [text |-> GrainText, distance |-> 1200],
     [text |-> GrainText]}

InitRelevance ==
    /\ pc = "call"
    /\ request \in [context_chunks : SeqsUpTo(ScoredPassages, MaxScored)]
    /\ response = [status |-> "idle"]
    /\ InitIdleSplit /\ InitIdleUpload /\ InitIdlePdf /\ InitIdleService

EvaluateContextRelevance ==
    /\ pc = "call"
    /\ response' = [status |-> "relevance",
                    context_relevance |->
                        evaluate_context_relevance(request.context_chunks, SimilarityThreshold)]
    /\ pc' = "done"
    /\ UNCHANGED <<splitVars, uploadVars, pdfVars, request, serviceVars>>

NextRelevance == EvaluateContextRelevance

SpecRelevance == InitRelevance /\ [][NextRelevance]_vars

RelevanceDone == pc = "done" /\ response.status = "relevance"

\* the positions of the passages that carry a usable score
Scored ==
    {i \in 1..Len(request.context_chunks) :
        Has(request.context_chunks[i], "similarity") \/ Has(request.context_chunks[i], "distance")}

\* the similarity the passage at position i contributes, in thousandths
Contribution(i) ==
    LET chunk == request.context_chunks[i]
    IN  IF Has(chunk, "similarity") THEN chunk.similarity
        ELSE IF chunk.distance >= 1000 THEN 0 ELSE 1000 - chunk.distance

RECURSIVE Total(_)
Total(S) == IF S = {} THEN 0 ELSE LET i == CHOOSE i \in S : TRUE IN Contribution(i) + Total(S \ {i})

\* C13: without any usable similarity or distance the average, minimum and
\* maximum similarity and relevant_chunks are 0; otherwise they are the mean
\* (to 3 decimals), the minimum and the maximum of the collected similarities,
\* a passage with only a distance contributing 1 - distance floored at 0, and
\* relevant_chunks counts the similarities at or above 0.5; total_chunks is
\* the number of passages.
C13_Relevance ==
    RelevanceDone =>
        LET rel == response.context_relevance
            n == Cardinality(Scored)
        IN  /\ rel.total_chunks = Len(request.context_chunks)
            /\ n = 0 => /\ rel.average_similarity = 0
                        /\ rel.min_similarity = 0
                        /\ rel.max_similarity = 0
                        /\ rel.relevant_chunks = 0
            /\ n > 0 => /\ 2 * Abs(rel.average_similarity * n - Total(Scored)) <= n
                        /\ \E i \in Scored : rel.min_similarity = Contribution(i)
                        /\ \A i \in Scored : rel.min_similarity <= Contribution(i)
                        /\ \E i \in Scored : rel.max_similarity = Contribution(i)
                        /\ \A i \in Scored : rel.max_similarity >= Contribution(i)
                        /\ rel.relevant_chunks =
                               Cardinality({i \in Scored : Contribution(i) >= 500})

\* the example: similarities [0.9, 0.4, 0.7] give 0.667, 2 relevant of 3
C13_Witness ==
    /\ RelevanceDone
    /\ request.context_chunks = <<[text |-> GrainText, similarity |-> 900],
                                  [text |-> GrainText, similarity |-> 400],
                                  [text |-> GrainText, similarity |-> 700]>>
    /\ response.context_relevance.average_similarity = 667
    /\ response.context_relevance.relevant_chunks = 2
    /\ response.context_relevance.total_chunks = 3

(***************************************************************************)
(* check_claim_support on its own.                                         *)
(***************************************************************************)
MaxSupportPassages == 2

SupportClaims ==
    {"grain prices rose sharply",
     "He invaded Russia during winter",
     "The harvest failed badly again",
     "wool exports declined steadily",
     "Rome fell"}

SupportPassages ==
    {[text |-> "sharply taxed grain"],
     [text |-> "The weather was mild"],
     [content |-> "Another matter entirely"],
     [text |-> "Rome fell in 476"]}

InitSupport ==
    /\ pc = "call"
    /\ request \in [claim : SupportClaims,
                    context_chunks : SeqsUpTo(SupportPassages, MaxSupportPassages)]
    /\ response = [status |-> "idle"]
    /\ InitIdleSplit /\ InitIdleUpload /\ InitIdlePdf /\ InitIdleService

CheckClaimSupport ==
    /\ pc = "call"
    /\ response' = [status |-> "support",
                    supported |-> check_claim_support(request.claim, request.context_chunks)]
    /\ pc' = "done"
    /\ UNCHANGED <<splitVars, uploadVars, pdfVars, request, serviceVars>>

NextSupport == CheckClaimSupport

SpecSupport == InitSupport /\ [][NextSupport]_vars

SupportDone == pc = "done" /\ response.status = "support"

\* the distinct significant words of a text: lowercase tokens of 3 or more
\* characters that are no stop words
SignificantWords(str) == {w \in WordSet(Lower(str)) : w \notin StopWords}

\* the text of the passage at position i
PassageText(i) ==
    LET chunk == request.context_chunks[i]
    IN  IF Has(chunk, "text") THEN chunk.text ELSE chunk.content

\* n occurs in h as a run of whole words, whatever the case
OccursAsWords(h, n) ==
    \E i \in 1..Len(h) :
        /\ StartsAt(Lower(h), i, Lower(n))
        /\ ~IsWordAt(h, i - 1)
        /\ ~IsWordAt(h, i + Len(n))

\* the 3-word phrases of the claim
ThreeWordPhrases(claim) ==
    LET tokens == SplitWhitespace(Lower(claim))
    IN  {tokens[i] \o " " \o tokens[i + 1] \o " " \o tokens[i + 2] : i \in 1..(Len(tokens) - 2)}

\* the claim shares nothing with the passage at position i
SharesNothing(i) ==
    /\ SignificantWords(request.claim) \cap SignificantWords(PassageText(i)) = {}
    /\ \A phrase \in ThreeWordPhrases(request.claim) : ~Contains(Lower(PassageText(i)), phrase)
    /\ \A term \in Range(ImportantTerms(request.claim)) : ~OccursAsWords(PassageText(i), term)

\* C14: a claim is marked supported whenever at least 40% of its distinct
\* significant words occur in some single passage, and a claim that shares
\* no significant word, no 3-word phrase and no capitalized term or number
\* with any passage is marked unsupported.
C14_Support ==
    SupportDone =>
        LET words == SignificantWords(request.claim)
            passages == 1..Len(request.context_chunks)
        IN  /\ (/\ words # {}
                /\ \E i \in passages :
                      5 * Cardinality(words \cap SignificantWords(PassageText(i)))
                          >= 2 * Cardinality(words))
                   => response.supported
            /\ (\A i \in passages : SharesNothing(i)) => ~response.supported

(***************************************************************************)
(* Two calls of EvaluationService.evaluate with the same arguments.  Each  *)
(* call runs in an interpreter process (the same one, or another worker or *)
(* a restarted server); the iteration order of a set of strings is fixed   *)
(* within a process and differs between processes.  EvaluationMetrics      *)
(* reads the clock when it is constructed (schemas/evaluation.py:68).      *)
(***************************************************************************)
MaxClock == 2
Callers == {1, 2}
Processes == {1, 2}

TwiceRequests ==
    [answer : EvalAnswers,
     context_chunks :
         {<<[text |-> TreatyText, metadata |-> [source |-> "a.pdf", page |-> 5], similarity |-> 810]>>,
          <<[text |-> TreatyText, metadata |-> [source |-> "a.pdf", page |-> 5], similarity |-> 810],
            [text |-> GrainText, metadata |-> [source |-> "b.pdf"], similarity |-> 400]>>},
     sources : {<<>>, <<"d.pdf">>}]

\* the EvaluationMetrics object built at evaluation_service.py:59-64
EvaluationMetrics(req, order, now) ==
    evaluate(req, order) @@ [evaluation_timestamp |-> now]

InitTwice ==
    /\ pc = "call"
    /\ request \in TwiceRequests
    /\ response = [status |-> "idle"]
    /\ clock = 0
    /\ \E process \in [Callers -> Processes] :
       \E order \in [Processes -> Orders(ContextSources(request.context_chunks))] :
          calls = [c \in Callers |-> [pc |-> "call",
                                      process |-> process[c],
                                      order |-> order[process[c]]]]
    /\ upload_dir = <<>>
    /\ llm_calls = 0
    /\ InitIdleSplit /\ InitIdleUpload /\ InitIdlePdf
    /\ conversations = <<>>
    /\ collection = <<>>

\* time passes
Tick ==
    /\ clock < MaxClock
    /\ clock' = clock + 1
    /\ UNCHANGED <<pc, splitVars, uploadVars, pdfVars, evalVars, calls, upload_dir, llm_calls,
                 conversations, collection>>

\* the call of caller c runs evaluate
EvaluateCall(c) ==
    /\ calls[c].pc = "call"
    /\ calls' = [calls EXCEPT ![c] =
                    [pc |-> "done",
                     process |-> calls[c].process,
                     order |-> calls[c].order,
                     metrics |-> EvaluationMetrics(request, calls[c].order, clock)]]
    /\ pc' = IF \A d \in Callers \ {c} : calls[d].pc = "done" THEN "done" ELSE pc
    /\ UNCHANGED <<splitVars, uploadVars, pdfVars, evalVars, clock, upload_dir, llm_calls,
                 conversations, collection>>

NextTwice == Tick \/ \E c \in Callers : EvaluateCall(c)

SpecTwice == InitTwice /\ [][NextTwice]_vars

BothDone == calls # <<>> /\ \A c \in Callers : calls[c].pc = "done"

\* the metrics without the time of the evaluation
Untimed(metrics) == [f \in DOMAIN metrics \ {"evaluation_timestamp"} |-> metrics[f]]

\* the metrics with missing_sources as a set
Unordered(metrics) ==
    [Untimed(metrics) EXCEPT !.citation_accuracy.missing_sources = Range(@)]

\* what the two calls do agree on: every field other than
\* evaluation_timestamp, missing_sources holding the same sources, and in
\* the same order when both calls run in the same interpreter process
SameUpToTimeAndOrder ==
    BothDone =>
        /\ Unordered(calls[1].metrics) = Unordered(calls[2].metrics)
        /\ Len(calls[1].metrics.citation_accuracy.missing_sources)
              = Len(calls[2].metrics.citation_accuracy.missing_sources)
        /\ calls[1].process = calls[2].process
              => Untimed(calls[1].metrics) = Untimed(calls[2].metrics)

\* C15: two calls with the same arguments, sequential or concurrent, return
\* metrics that are identical in every field, the order of missing_sources
\* and the fields of the EvaluationMetrics object included.
C15_Deterministic ==
    BothDone => calls[1].metrics = calls[2].metrics

(***************************************************************************)
(* EvaluationService.evaluate around the documented example.               *)
(***************************************************************************)
ExamplePassages ==
    {[text |-> TreatyText, metadata |-> [source |-> "x.pdf", page |-> 12], similarity |-> 810],
     [text |-> GrainText, metadata |-> [source |-> "x.pdf", page |-> 13], similarity |-> 400],
     [text |-> GrainText, metadata |-> [source |-> "y.pdf", page |-> 2], similarity |-> 1000]}

ExampleEntries == {"x.pdf (Page 12)", "x.pdf (Page 14)"}

InitExample ==
    /\ pc = "call"
    /\ request \in [answer : EvalAnswers,
                    context_chunks : SeqsUpTo(ExamplePassages, MaxPassages),
                    sources : SeqsUpTo(ExampleEntries, MaxSources)]
    /\ response = [status |-> "idle"]
    /\ InitIdleSplit /\ InitIdleUpload /\ InitIdlePdf /\ InitIdleService

SpecExample == InitExample /\ [][NextEval]_vars

\* the request of the example has been evaluated
ExampleDone ==
    /\ EvalDone
    /\ request.answer = "The treaty was signed in 1815."
    /\ request.context_chunks =
           <<[text |-> TreatyText, metadata |-> [source |-> "x.pdf", page |-> 12],
              similarity |-> 810]>>
    /\ request.sources = <<"x.pdf (Page 12)">>

\* citation_accuracy = 1.0, faithfulness_score = 1.0, missing_sources = []
ExampleSubScores ==
    /\ response.citation_accuracy.citation_accuracy = Ratio(1, 1)
    /\ response.answer_faithfulness.faithfulness_score = Ratio(1, 1)
    /\ response.citation_accuracy.missing_sources = <<>>

\* C16 as stated: the example yields citation_accuracy 1.0, faithfulness_score
\* 1.0, no missing sources and an overall_score of 1.0 to 3 decimals.
C16_Original ==
    ExampleDone => (ExampleSubScores /\ response.overall_score = 1000)

\* C16 amended: the example yields citation_accuracy 1.0, faithfulness_score
\* 1.0, no missing sources and overall_score 0.962
\* (0.3 * 1.0 + 0.2 * 0.81 + 0.5 * 1.0).
C16_Amended ==
    ExampleDone => (ExampleSubScores /\ response.overall_score = 962)

C16_Witness ==
    /\ ExampleDone
    /\ response.context_relevance.average_similarity = 810
    /\ response.answer_faithfulness.total_claims = 1
    /\ response.citation_accuracy.valid_citations = 1

(***************************************************************************)
(* The sources of an answer: rag_pipeline (rag_engine.py:169-190) and the  *)
(* conversion of the chat route (api/routes/chat.py:54-65).                *)
(***************************************************************************)
MaxRetrieved == 3

\* the page None of a SourceInfo, no page being 0
NoPage == 0

\* passages as search_similar_documents returns them (vector_store.py:98-105)
RetrievedPassages ==
    {[content |-> TreatyText, metadata |-> [source |-> "a.pdf", page |-> 5]],
     [content |-> GrainText, metadata |-> [source |-> "a.pdf", page |-> 6]],
     [content |-> GrainText, metadata |-> [source |-> "b.pdf"]],
     [content |-> GrainText, metadata |-> <<>>]}

\* the set of line 187
PipelineSources(context_chunks) ==
    {Get(Get(context_chunks[i], "metadata", <<>>), "source", "unknown") :
        i \in 1..Len(context_chunks)}

\* rag_pipeline, the set of the sources listed in the order `order`; an
\* entry of the list is a Python string, written [str |-> name]
rag_pipeline(answer, context_chunks, order) ==
    [response |-> answer, sources |-> [i \in 1..Len(order) |-> [str |-> order[i]]]]

\* SourceInfo of one entry of result.sources (chat.py:56-65): an entry that
\* is a dict gives its own fields, a string is a bare source name
SourceInfo(source) ==
    IF ~Has(source, "str")
    THEN source
    ELSE [source |-> source.str, page |-> NoPage, display_text |-> source.str]

InitSources ==
    /\ pc = "call"
    /\ request \in [answer : {"The treaty was signed in 1815."},
                    context_chunks : SeqsUpTo(RetrievedPassages, MaxRetrieved)]
    /\ response = [status |-> "idle"]
    /\ InitIdleSplit /\ InitIdleUpload /\ InitIdlePdf /\ InitIdleService

RagPipeline ==
    /\ pc = "call"
    /\ \E order \in Orders(PipelineSources(request.context_chunks)) :
          response' = [status |-> "answered",
                       result |-> rag_pipeline(request.answer, request.context_chunks, order)]
    /\ pc' = "answered"
    /\ UNCHANGED <<splitVars, uploadVars, pdfVars, request, serviceVars>>

ChatSources ==
    /\ pc = "answered"
    /\ response' = [status |-> "chat",
                    response |-> response.result.response,
                    sources |-> [i \in 1..Len(response.result.sources) |->
                                    SourceInfo(response.result.sources[i])]]
    /\ pc' = "done"
    /\ UNCHANGED <<splitVars, uploadVars, pdfVars, request, serviceVars>>

NextSources == RagPipeline \/ ChatSources

SpecSources == InitSources /\ [][NextSources]_vars

\* the distinct (source, page) pairs among the retrieved passages
RetrievedPairs ==
    {[source |-> Get(request.context_chunks[i].metadata, "source", "unknown"),
      page |-> Get(request.context_chunks[i].metadata, "page", NoPage)] :
        i \in 1..Len(request.context_chunks)}

\* C17: the source list attached to an answer holds one citation for each
\* distinct (source, page) pair among the retrieved passages, with
\* display_text "{source} (Page {page})" when the page is known and the bare
\* source name when it is not.
C17_SourceList ==
    (pc = "done" /\ response.status = "chat") =>
        LET sources == response.sources
        IN  /\ Len(sources) = Cardinality(RetrievedPairs)
            /\ {[source |-> sources[i].source, page |-> sources[i].page] :
                    i \in 1..Len(sources)} = RetrievedPairs
            /\ \A i \in 1..Len(sources) :
                  sources[i].display_text =
                      IF sources[i].page = NoPage THEN sources[i].source
                      ELSE sources[i].source \o " (Page " \o StrOfNat(sources[i].page) \o ")"

(***************************************************************************)
(* DocumentService.upload (document_service.py:88-110) on the upload       *)
(* directory of StorageService, behind the route of documents.py:32-48.    *)
(* An uploaded file is a record; one without the field filename has the    *)
(* filename None.  Sizes are counted in KiB.                               *)
(***************************************************************************)
MaxUploads == 2

Kib == 1024
MaxSizeMb == 10

UploadNames == {"a.pdf", "a.PDF", "a.exe", "notes", ""}

\* 0, 1 KiB, 11 MiB and 11 GiB
UploadSizes == {0, 1, 11 * Kib, 11 * Kib * Kib}

UploadFiles ==
    [filename : UploadNames, size : UploadSizes] \cup [size : UploadSizes]

AllowedExtensions == {".txt", ".pdf", ".docx", ".md"}

RECURSIVE LastIndex(_, _, _)
\* the last position <= i of s holding the character c, 0 if there is none
LastIndex(s, i, c) ==
    IF i < 1 THEN 0
    ELSE IF Ch(s, i) = c THEN i
    ELSE LastIndex(s, i - 1, c)

\* os.path.basename, and the name of a Path
BaseName(filename) ==
    SubSeq(filename, LastIndex(filename, Len(filename), "/") + 1, Len(filename))

\* Path(filename).suffix.lower()
Suffix(filename) ==
    LET name == BaseName(filename)
        dot == LastIndex(name, Len(name), ".")
    IN  IF dot <= 1 \/ dot = Len(name) THEN "" ELSE Lower(SubSeq(name, dot, Len(name)))

\* validate_file_upload; max_bytes is max_size_mb * 1024 * 1024 * 1024 bytes,
\* which is max_size_mb * 1024 * 1024 KiB
validate_file_upload(file, max_size_mb) ==
    IF ~Has(file, "filename") \/ file.filename = ""
    THEN [is_valid |-> FALSE, error_message |-> "Filename is required"]
    ELSE IF Suffix(file.filename) \notin AllowedExtensions
    THEN [is_valid |-> FALSE, error_message |-> "File type not supported"]
    ELSE IF file.size > max_size_mb * Kib * Kib
    THEN [is_valid |-> FALSE, error_message |-> "File size exceeds maximum allowed size"]
    ELSE IF file.size = 0
    THEN [is_valid |-> FALSE, error_message |-> "File is empty"]
    ELSE [is_valid |-> TRUE, error_message |-> ""]

\* StorageService.upload_file_bytes raises TypeError on the filename None
\* (os.path.basename, line 24)
StoreRaises(file) == ~Has(file, "filename")

\* the upload directory after upload_file_bytes
Stored(dir, file) == Append(dir, [original_filename |-> file.filename, size |-> file.size])

\* the response of the upload route
UploadResponse(file) ==
    LET validation == validate_file_upload(file, MaxSizeMb)
    IN  IF StoreRaises(file)
        THEN [status |-> 500, detail |-> "Failed to upload file"]
        ELSE IF ~validation.is_valid
        THEN [status |-> 400, detail |-> validation.error_message]
        ELSE [status |-> 200, detail |-> "File uploaded successfully"]

InitStore ==
    /\ pc = "call"
    /\ request = [status |-> "idle"]
    /\ response = [status |-> "idle"]
    /\ clock = 0
    /\ calls = <<>>
    /\ upload_dir = <<>>
    /\ llm_calls = 0
    /\ InitIdleSplit /\ InitIdleUpload /\ InitIdlePdf
    /\ conversations = <<>>
    /\ collection = <<>>

Upload ==
    /\ Len(upload_dir) < MaxUploads
    /\ \E file \in UploadFiles :
          /\ request' = file
          /\ upload_dir' = IF StoreRaises(file) THEN upload_dir ELSE Stored(upload_dir, file)
          /\ response' = UploadResponse(file)
    /\ pc' = "done"
    /\ UNCHANGED <<splitVars, uploadVars, pdfVars, clock, calls, llm_calls,
                 conversations, collection>>

NextStore == Upload

SpecStore == InitStore /\ [][NextStore]_vars

\* the rule an upload violates, "" if it violates none
ViolatedRule(file) ==
    IF ~Has(file, "filename") \/ file.filename = "" THEN "Filename is required"
    ELSE IF Suffix(file.filename) \notin AllowedExtensions THEN "File type not supported"
    ELSE IF file.size = 0 THEN "File is empty"
    ELSE IF file.size > MaxSizeMb * Kib THEN "File size exceeds maximum allowed size"
    ELSE ""

\* C18: an upload that violates a validation rule is rejected with HTTP 400
\* naming a violated rule, and the upload directory holds after the call
\* exactly the files it held before.
C18_RejectedBeforeStored ==
    [][(pc' = "done" /\ ViolatedRule(request') # "")
          => /\ response'.status = 400
             /\ response'.detail \in {"Filename is required", "File type not supported",
                                      "File is empty", "File size exceeds maximum allowed size"}
             /\ upload_dir' = upload_dir]_vars

(***************************************************************************)
(* GeminiClient.invoke (llm.py:39-142) and the error handling of the chat  *)
(* route (api/routes/chat.py:73-88).  An upstream failure is a record of   *)
(* what the failure is (cause), str(e), repr(e) and the numbers the        *)
(* patterns of lines 95-122 read from str(e) (0 when they read none).      *)
(***************************************************************************)
UpstreamOutcomes ==
    {[cause |-> "none", text |-> "The treaty was signed in 1815."],
     [cause |-> "quota",
      error_str |-> "429 You exceeded your current quota, limit: 50. Please retry in 30s.",
      error_repr |-> "ResourceExhausted('429 You exceeded your current quota')",
      retry_after |-> 30, quota_limit |-> 50],
     [cause |-> "rate_limit",
      error_str |-> "Rate limit reached for requests",
      error_repr |-> "TooManyRequests('Rate limit reached for requests')",
      retry_after |-> 0, quota_limit |-> 0],
     [cause |-> "timeout",
      error_str |-> "504 Deadline Exceeded",
      error_repr |-> "DeadlineExceeded('504 Deadline Exceeded')",
      retry_after |-> 0, quota_limit |-> 0],
     [cause |-> "server_error",
      error_str |-> "500 Internal error encountered",
      error_repr |-> "InternalServerError('500 Internal error encountered')",
      retry_after |-> 0, quota_limit |-> 0],
     [cause |-> "invalid_key",
      error_str |-> "400 API key not valid",
      error_repr |-> "InvalidArgument('400 API key not valid')",
      retry_after |-> 0, quota_limit |-> 0]}

ChatMessages == {"Who signed the treaty?", "When?", "Where was the congress?"}

\* lines 85-91
is_quota_error(e) ==
    \/ Contains(e.error_str, "429")
    \/ Contains(Lower(e.error_str), "quota")
    \/ Contains(Lower(e.error_str), "rate limit")
    \/ Contains(e.error_repr, "ResourceExhausted")
    \/ Contains(Lower(e.error_str), "exceeded")

\* the exception GeminiClient.invoke raises for the upstream failure e
InvokeRaises(e) ==
    IF is_quota_error(e)
    THEN [type |-> "QuotaExceededError", message |-> "API quota exceeded.",
          retry_after |-> e.retry_after, quota_limit |-> e.quota_limit]
    ELSE [type |-> "Exception", message |-> e.error_str]

\* the HTTP response of the chat route for an exception (lines 73-88)
ChatError(exc) ==
    IF exc.type = "QuotaExceededError"
    THEN [status |-> 429,
          detail |-> [error |-> "quota_exceeded", message |-> exc.message,
                      retry_after |-> exc.retry_after, quota_limit |-> exc.quota_limit]]
    ELSE [status |-> 500, detail |-> exc.message]

InitInvoke ==
    /\ pc = "call"
    /\ request \in [message : ChatMessages, has_history : BOOLEAN, upstream : UpstreamOutcomes]
    /\ response = [status |-> "idle"]
    /\ InitIdleSplit /\ InitIdleUpload /\ InitIdlePdf /\ InitIdleService

\* invoke sends one request upstream (send_message or generate_content)
Invoke ==
    /\ pc = "call"
    /\ llm_calls' = llm_calls + 1
    /\ response' = IF request.upstream.cause = "none"
                   THEN [status |-> "returned", content |-> request.upstream.text]
                   ELSE [status |-> "raised", exception |-> InvokeRaises(request.upstream)]
    /\ pc' = "invoked"
    /\ UNCHANGED <<splitVars, uploadVars, pdfVars, request, clock, calls, upload_dir,
                 conversations, collection>>

\* the chat route answers
ChatRespond ==
    /\ pc = "invoked"
    /\ response' = IF response.status = "returned"
                   THEN [status |-> 200, response |-> response.content]
                   ELSE ChatError(response.exception)
    /\ pc' = "done"
    /\ UNCHANGED <<splitVars, uploadVars, pdfVars, request, serviceVars>>

NextInvoke == Invoke \/ ChatRespond

SpecInvoke == InitInvoke /\ [][NextInvoke]_vars

\* C19: a failure of the language-model call is reported as quota-exceeded
\* (HTTP 429 with retry_after and quota_limit) if and only if the upstream
\* failure is a quota or rate-limit failure, every other failure is an HTTP
\* 500, and the model is invoked at most once per chat request.
C19_QuotaIffQuota ==
    /\ llm_calls <= 1
    /\ (pc = "done" /\ request.upstream.cause # "none") =>
           IF request.upstream.cause \in {"quota", "rate_limit"}
           THEN /\ response.status = 429
                /\ {"retry_after", "quota_limit"} \subseteq DOMAIN response.detail
           ELSE response.status = 500

(***************************************************************************)
(* Retrieval that may find nothing: search_similar_documents               *)
(* (vector_store.py:86-107), the evaluate route and the evaluate-chat      *)
(* route (api/routes/evaluation.py:16-95) with RAGService.answer_question  *)
(* (rag_service.py:34-78).                                                 *)
(***************************************************************************)
\* rows of the answer of collection.query (vector_store.py:87-90)
QueryRows ==
    {[document |-> TreatyText, metadata |-> [source |-> "a.pdf", page |-> 5], id |-> "a_0"],
     [document |-> GrainText, metadata |-> [source |-> "b.pdf"], id |-> "b_0"],
     [document |-> GrainText, metadata |-> <<>>, id |-> "c_0"]}

search_similar_documents(rows) ==
    [i \in 1..Len(rows) |->
        [content |-> rows[i].document, metadata |-> rows[i].metadata, id |-> rows[i].id]]

\* the parameters of rag_pipeline (rag_engine.py:169-176) and the keywords
\* answer_question calls it with (rag_service.py:50-60)
RagPipelineParameters ==
    {"query", "vector_store_collection", "embedding_model", "llm_client", "top_k", "temperature"}

AnswerQuestionKeywords ==
    {"query", "vector_store_collection", "embedding_model", "llm_client", "top_k", "temperature",
     "conversation_history", "return_context", "api_base_url"}

\* RAGService.answer_question with return_context=True: the call of
\* rag_pipeline raises TypeError on a keyword it does not take; otherwise the
\* RAGResult has context_chunks only when the pipeline result has them
answer_question(req, order) ==
    IF ~(AnswerQuestionKeywords \subseteq RagPipelineParameters)
    THEN [raises |-> "TypeError"]
    ELSE LET result == rag_pipeline(req.answer, search_similar_documents(req.rows), order)
             rag_result == [text |-> result.response, sources |-> result.sources]
         IN  IF Has(result, "context_chunks")
             THEN rag_result @@ [context_chunks |-> result.context_chunks]
             ELSE rag_result

\* evaluate_chat_response (api/routes/evaluation.py:61-95)
evaluate_chat_response(req, order) ==
    LET rag_result == answer_question(req, order)
    IN  IF Has(rag_result, "raises")
        THEN [status |-> 500, detail |-> "Evaluation failed"]
        ELSE IF ~Has(rag_result, "context_chunks")
        THEN [status |-> 500, detail |-> "Evaluation failed"]
        ELSE IF rag_result.context_chunks = <<>>
        THEN [status |-> 400,
              detail |-> "No context chunks retrieved. Cannot evaluate response."]
        ELSE evaluate([answer |-> rag_result.text,
                       context_chunks |-> rag_result.context_chunks,
                       sources |-> [i \in 1..Len(rag_result.sources) |->
                                       rag_result.sources[i].str]],
                      order)

InitDegraded ==
    /\ pc = "call"
    /\ request \in [route : {"evaluate", "evaluate_chat"},
                    answer : {"The treaty was signed in 1815.", "Grain prices rose sharply."},
                    rows : SeqsUpTo(QueryRows, MaxRetrieved)]
    /\ response = [status |-> "idle"]
    /\ InitIdleSplit /\ InitIdleUpload /\ InitIdlePdf /\ InitIdleService

\* the caller of the evaluate route retrieves the passages
SearchSimilar ==
    /\ pc = "call"
    /\ request.route = "evaluate"
    /\ response' = [status |-> "retrieved",
                    context_chunks |-> search_similar_documents(request.rows)]
    /\ pc' = "retrieved"
    /\ UNCHANGED <<splitVars, uploadVars, pdfVars, request, serviceVars>>

\* evaluate_response (api/routes/evaluation.py:16-41) on the retrieved passages
EvaluateRetrieved ==
    /\ pc = "retrieved"
    /\ \E order \in Orders(ContextSources(response.context_chunks)) :
          response' = evaluate([answer |-> request.answer,
                                context_chunks |-> response.context_chunks,
                                sources |-> <<>>],
                               order)
    /\ pc' = "done"
    /\ UNCHANGED <<splitVars, uploadVars, pdfVars, request, serviceVars>>

EvaluateChat ==
    /\ pc = "call"
    /\ request.route = "evaluate_chat"
    /\ \E order \in Orders(PipelineSources(search_similar_documents(request.rows))) :
          response' = evaluate_chat_response(request, order)
    /\ pc' = "done"
    /\ UNCHANGED <<splitVars, uploadVars, pdfVars, request, serviceVars>>

NextDegraded == SearchSimilar \/ EvaluateRetrieved \/ EvaluateChat

SpecDegraded == InitDegraded /\ [][NextDegraded]_vars

\* C20: when retrieval yields zero passages, search_similar_documents returns
\* an empty list, and both the evaluate route and the evaluate-chat route
\* complete with zero relevance, zero faithfulness and an empty citation
\* list instead of an HTTP error.
C20_DegradedSuccess ==
    /\ (pc = "retrieved" /\ request.rows = <<>>) => response.context_chunks = <<>>
    /\ (pc = "done" /\ request.rows = <<>>) =>
           /\ Has(response, "context_relevance")
           /\ response.context_relevance.average_similarity = 0
           /\ response.context_relevance.relevant_chunks = 0
           /\ response.answer_faithfulness.faithfulness_score.num = 0
           /\ response.citation_accuracy.missing_sources = <<>>
           /\ response.citation_accuracy.invalid_citations = <<>>

(***************************************************************************)
(* The offset-correction pass of extract_text_from_pdf on pages whose      *)
(* number was read and on pages that follow skipped pages.                 *)
(***************************************************************************)
\* the number read directly from the text of the i-th returned page, 0 for none
DirectNumber(i) == extract_page_number_from_text(pdf_result.pages[i].text)

\* the 1-based physical position in the PDF of the i-th returned page
PhysicalIndex(i) == pdf_document.lead + YieldingSeq(pdf_document)[i]

\* C21: the offset-correction pass never changes the page number of a page
\* whose number was read directly from its text, also when that number equals
\* the page's position.
C21_DirectNumberKept ==
    PdfOk => \A i \in 1..Len(pdf_result.pages) :
                 DirectNumber(i) # 0 => pdf_result.pages[i].page = DirectNumber(i)

\* the directly read (index, number) pairs of the document
ExtractedOf(doc) == ReadAllPages(doc).extracted

\* C22: when the mean offset of the directly read pages has magnitude
\* strictly between 0.5 and 20, every page still on its physical-index
\* fallback receives physical_index + round(mean offset) whenever that value
\* is positive, also after skipped blank or unreadable pages.
C22_FallbackCorrected ==
    (/\ PdfOk
     /\ ExtractedOf(pdf_document) # <<>>
     /\ OffsetPlausible(SumOffsets(ExtractedOf(pdf_document)), Len(ExtractedOf(pdf_document))))
    => LET offset == RoundDiv(SumOffsets(ExtractedOf(pdf_document)),
                              Len(ExtractedOf(pdf_document)))
       IN  \A i \in 1..Len(pdf_result.pages) :
               (DirectNumber(i) = 0 /\ PhysicalIndex(i) + offset > 0)
                   => pdf_result.pages[i].page = PhysicalIndex(i) + offset

(***************************************************************************)
(* The two paths of evaluate_citation_accuracy on the same citation: the   *)
(* marker "[Source: S, Page: P]" in the answer (lines 160-192) and the     *)
(* provided entry "S (Page P)" (lines 80-158).                             *)
(***************************************************************************)
MarkerSources == {"a.pdf", "b.pdf", "d.pdf"}
MarkerPages == {"5", "05", "6", "9", "?"}

MarkerOf(src, page) == "[Source: " \o src \o ", Page: " \o page \o "]"
EntryOf(src, page) == src \o " (Page " \o page \o ")"

InitMarker ==
    /\ pc = "call"
    /\ request \in [source : MarkerSources, page : MarkerPages,
                    context_chunks : SeqsUpTo(CitationChunks, MaxPassages)]
    /\ response = [status |-> "idle"]
    /\ InitIdleSplit /\ InitIdleUpload /\ InitIdlePdf /\ InitIdleService

\* the citation is evaluated once as a marker of the answer without
\* provided sources and once as the only provided source
EvaluateBothPaths ==
    /\ pc = "call"
    /\ \E order \in Orders(ContextSources(request.context_chunks)) :
          response' =
              [status |-> "both",
               inline |-> evaluate_citation_accuracy(
                              MarkerOf(request.source, request.page),
                              request.context_chunks, <<>>, order),
               provided |-> evaluate_citation_accuracy(
                                "Grain prices rose sharply.", request.context_chunks,
                                <<EntryOf(request.source, request.page)>>, order)]
    /\ pc' = "done"
    /\ UNCHANGED <<splitVars, uploadVars, pdfVars, request, serviceVars>>

NextMarker == EvaluateBothPaths

SpecMarker == InitMarker /\ [][NextMarker]_vars

\* C23: the marker "[Source: S, Page: P]" in the answer is counted valid if
\* and only if the provided entry "S (Page P)" is counted valid, for every
\* list of retrieved passages, source name S and page token P.
C23_SameValidityRule ==
    (pc = "done" /\ response.status = "both") =>
        /\ response.inline.total_citations = 1
        /\ response.provided.total_citations = 1
        /\ response.inline.valid_citations = response.provided.valid_citations

(***************************************************************************)
(* check_claim_support and evaluate_answer_faithfulness on a passage list, *)
(* on each of its passages alone, on the reversed list and on the list     *)
(* with one more passage.                                                  *)
(***************************************************************************)
Reversed(seq) == [i \in 1..Len(seq) |-> seq[Len(seq) + 1 - i]]

\* an answer of two sentences, the first being the claim
AnswerOf(claim) == claim \o ". wool exports declined steadily."

InitPassagewise ==
    /\ pc = "call"
    /\ request \in [claim : SupportClaims,
                    context_chunks : SeqsUpTo(SupportPassages, MaxSupportPassages),
                    added : SupportPassages]
    /\ response = [status |-> "idle"]
    /\ InitIdleSplit /\ InitIdleUpload /\ InitIdlePdf /\ InitIdleService

CheckPassagewise ==
    /\ pc = "call"
    /\ LET passages == request.context_chunks
           more == Append(passages, request.added)
       IN  response' =
               [status |-> "passagewise",
                whole |-> check_claim_support(request.claim, passages),
                each |-> [i \in 1..Len(passages) |->
                             check_claim_support(request.claim, <<passages[i]>>)],
                reversed |-> check_claim_support(request.claim, Reversed(passages)),
                extended |-> check_claim_support(request.claim, more),
                faithfulness |->
                    evaluate_answer_faithfulness(AnswerOf(request.claim), passages),
                faithfulness_extended |->
                    evaluate_answer_faithfulness(AnswerOf(request.claim), more)]
    /\ pc' = "done"
    /\ UNCHANGED <<splitVars, uploadVars, pdfVars, request, serviceVars>>

NextPassagewise == CheckPassagewise

SpecPassagewise == InitPassagewise /\ [][NextPassagewise]_vars

PassagewiseDone == pc = "done" /\ response.status = "passagewise"

\* a / b <= c / d for ratios of counts
RatioLeq(x, y) == x.num * y.den <= y.num * x.den

\* C24: check_claim_support(claim, passages) is true iff it is true of the
\* claim and at least one single passage of the list; reordering the list
\* does not change it, and one more passage never turns a supported claim
\* into an unsupported one nor lowers faithfulness_score.
C24_PassageByPassage ==
    PassagewiseDone =>
        /\ response.whole <=> \E i \in 1..Len(response.each) : response.each[i]
        /\ response.reversed = response.whole
        /\ response.whole => response.extended
        /\ RatioLeq(response.faithfulness.faithfulness_score,
                    response.faithfulness_extended.faithfulness_score)

\* a claim supported by the second of two passages only
C24_Witness ==
    /\ PassagewiseDone
    /\ Len(response.each) = 2
    /\ ~response.each[1]
    /\ response.each[2]
    /\ response.whole
    /\ response.reversed
    /\ response.faithfulness.supported_claims = 1

(***************************************************************************)
(* generate_recommendations (evaluation.py:416-493).  A recommendation is  *)
(* the record of the rule that emitted it and of the numbers its text      *)
(* shows; scores are thousandths, ratios are compared by cross products.   *)
(***************************************************************************)
CitationBelow == 800
RelevanceLow == 500
RelevanceModerate == 600
FaithfulnessBelow == 700
OverallPoor == 600
OverallFair == 700
OverallExcellent == 900
MaxListedMissing == 3

\* ratio < t / 1000
RatioBelow(ratio, t) == ratio.num * One < t * ratio.den

\* lines 423-444
CitationRecommendation(citation_acc) ==
    IF RatioBelow(citation_acc.citation_accuracy, CitationBelow)
    THEN IF Len(citation_acc.invalid_citations) > 0
         THEN <<[rule |-> "citation", text |-> "invalid citations found",
                 valid |-> citation_acc.valid_citations,
                 total |-> citation_acc.total_citations,
                 invalid_count |-> Len(citation_acc.invalid_citations)]>>
         ELSE IF citation_acc.total_citations > 0
         THEN <<[rule |-> "citation", text |-> "sources may not be properly cited",
                 valid |-> citation_acc.valid_citations,
                 total |-> citation_acc.total_citations]>>
         ELSE <<[rule |-> "citation", text |-> "No sources were provided"]>>
    ELSE <<>>

\* lines 446-451
MissingRecommendation(citation_acc) ==
    IF citation_acc.missing_sources # <<>>
    THEN <<[rule |-> "missing", count |-> Len(citation_acc.missing_sources),
            listed |-> SubSeq(citation_acc.missing_sources, 1,
                              Min(MaxListedMissing, Len(citation_acc.missing_sources))),
            more |-> Len(citation_acc.missing_sources) > MaxListedMissing]>>
    ELSE <<>>

\* lines 453-465
RelevanceRecommendation(relevance) ==
    IF relevance.average_similarity < RelevanceLow
    THEN <<[rule |-> "relevance", text |-> "Low context relevance",
            relevant_chunks |-> relevance.relevant_chunks,
            total_chunks |-> relevance.total_chunks]>>
    ELSE IF relevance.average_similarity < RelevanceModerate
    THEN <<[rule |-> "relevance", text |-> "Moderate context relevance"]>>
    ELSE <<>>

\* lines 467-475
FaithfulnessRecommendation(faithfulness) ==
    IF RatioBelow(faithfulness.faithfulness_score, FaithfulnessBelow)
    THEN <<[rule |-> "faithfulness",
            supported |-> faithfulness.supported_claims,
            total |-> faithfulness.total_claims,
            unsupported_count |-> Len(faithfulness.unsupported_claims)]>>
    ELSE <<>>

\* lines 477-491
OverallRecommendationNoGap(overall_score) ==
    IF overall_score < OverallPoor
    THEN <<[rule |-> "overall", text |-> "needs significant improvement"]>>
    ELSE IF overall_score < OverallFair
    THEN <<[rule |-> "overall", text |-> "room for improvement"]>>
    ELSE <<[rule |-> "overall", text |-> "Excellent factual grounding"]>>
OverallRecommendation(overall_score) ==
    IF overall_score < OverallPoor
    THEN <<[rule |-> "overall", text |-> "needs significant improvement"]>>
    ELSE IF overall_score < OverallFair
    THEN <<[rule |-> "overall", text |-> "room for improvement"]>>
    ELSE IF overall_score >= OverallExcellent
    THEN <<[rule |-> "overall", text |-> "Excellent factual grounding"]>>
    ELSE <<>>

generate_recommendations(metrics) ==
    LET recommendations ==
            CitationRecommendation(metrics.citation_accuracy)
               \o MissingRecommendation(metrics.citation_accuracy)
               \o RelevanceRecommendation(metrics.context_relevance)
               \o FaithfulnessRecommendation(metrics.answer_faithfulness)
               \o OverallRecommendation(metrics.overall_score)
    IN  IF recommendations # <<>> THEN recommendations
        ELSE <<[rule |-> "default", text |-> "No specific recommendations"]>>

\* metrics as the three evaluators return them
CitationResults ==
    {[total_citations |-> 0, valid_citations |-> 0, citation_accuracy |-> Zero,
      missing_sources |-> m, invalid_citations |-> <<>>] : m \in {<<>>, <<"a.pdf">>}}
    \cup {[total_citations |-> 4, valid_citations |-> 3, citation_accuracy |-> Ratio(3, 4),
           missing_sources |-> m, invalid_citations |-> <<"d.pdf">>] :
              m \in {<<>>, <<"a.pdf", "b.pdf", "c.pdf", "e.pdf">>}}
    \cup {[total_citations |-> 5, valid_citations |-> 4, citation_accuracy |-> Ratio(4, 5),
           missing_sources |-> <<>>, invalid_citations |-> <<"d.pdf">>],
          [total_citations |-> 1, valid_citations |-> 1, citation_accuracy |-> Ratio(1, 1),
           missing_sources |-> <<>>, invalid_citations |-> <<>>]}

RelevanceResults ==
    {[average_similarity |-> a, min_similarity |-> a, max_similarity |-> a,
      relevant_chunks |-> IF a >= SimilarityThreshold THEN 1 ELSE 0, total_chunks |-> 1] :
        a \in {0, 499, 500, 599, 600, 1000}}

FaithfulnessResults ==
    {[faithfulness_score |-> Zero, supported_claims |-> 0, total_claims |-> 0,
      unsupported_claims |-> <<>>],
     [faithfulness_score |-> Ratio(2, 3), supported_claims |-> 2, total_claims |-> 3,
      unsupported_claims |-> <<"Rome fell in 476">>],
     [faithfulness_score |-> Ratio(7, 10), supported_claims |-> 7, total_claims |-> 10,
      unsupported_claims |-> <<"a", "b", "c">>],
     [faithfulness_score |-> Ratio(1, 1), supported_claims |-> 1, total_claims |-> 1,
      unsupported_claims |-> <<>>]}

InitRecommend ==
    /\ pc = "call"
    /\ request \in [citation_accuracy : CitationResults,
                    context_relevance : RelevanceResults,
                    answer_faithfulness : FaithfulnessResults]
    /\ response = [status |-> "idle"]
    /\ InitIdleSplit /\ InitIdleUpload /\ InitIdlePdf /\ InitIdleService

\* the tail of EvaluationService.evaluate (evaluation_service.py:51-74)
Recommend ==
    /\ pc = "call"
    /\ LET metrics ==
               [citation_accuracy |-> request.citation_accuracy,
                context_relevance |-> request.context_relevance,
                answer_faithfulness |-> request.answer_faithfulness,
                overall_score |->
                    compute_overall_score(request.citation_accuracy,
                                          request.context_relevance,
                                          request.answer_faithfulness)]
       IN  response' = [status |-> "recommended", metrics |-> metrics,
                        recommendations |-> generate_recommendations(metrics)]
    /\ pc' = "done"
    /\ UNCHANGED <<splitVars, uploadVars, pdfVars, request, serviceVars>>

NextRecommend == Recommend

SpecRecommend == InitRecommend /\ [][NextRecommend]_vars

RecommendDone == pc = "done" /\ response.status = "recommended"

\* the recommendations of a rule, in order
OfRule(rule) ==
    LET IsOfRule(rec) == rec.rule = rule
    IN  SelectSeq(response.recommendations, IsOfRule)

\* exactly one recommendation of the rule if cond, none otherwise
OneIff(rule, cond) == Len(OfRule(rule)) = (IF cond THEN 1 ELSE 0)

\* C25: a citation recommendation is emitted iff citation_accuracy < 0.8, a
\* missing-sources one iff missing_sources is non-empty, exactly one
\* relevance one iff average_similarity < 0.6 (low below 0.5, moderate in
\* [0.5, 0.6)), a faithfulness one iff faithfulness_score < 0.7, at most one
\* overall one (< 0.6, else < 0.7, else >= 0.9, none in [0.7, 0.9)); the list
\* is never empty and holds the default entry exactly when no rule fires.
C25_RuleTable ==
    RecommendDone =>
        LET m == response.metrics
            sim == m.context_relevance.average_similarity
            overall == m.overall_score
        IN  /\ OneIff("citation", 10 * m.citation_accuracy.valid_citations
                                     < 8 * m.citation_accuracy.total_citations
                                  \/ m.citation_accuracy.total_citations = 0)
            /\ OneIff("missing", Len(m.citation_accuracy.missing_sources) > 0)
            /\ OneIff("relevance", sim < 600)
            /\ \A i \in 1..Len(OfRule("relevance")) :
                   OfRule("relevance")[i].text =
                       (IF sim < 500 THEN "Low context relevance"
                        ELSE "Moderate context relevance")
            /\ OneIff("faithfulness",
                      10 * m.answer_faithfulness.supported_claims
                          < 7 * m.answer_faithfulness.total_claims
                      \/ m.answer_faithfulness.total_claims = 0)
            /\ OneIff("overall", overall < 700 \/ overall >= 900)
            /\ \A i \in 1..Len(OfRule("overall")) :
                   OfRule("overall")[i].text =
                       (IF overall < 600 THEN "needs significant improvement"
                        ELSE IF overall < 700 THEN "room for improvement"
                        ELSE "Excellent factual grounding")
            /\ response.recommendations # <<>>
            /\ OneIff("default",
                      Len(response.recommendations) = Len(OfRule("default")))
            /\ Len(OfRule("default")) = 1 => Len(response.recommendations) = 1

\* no rule fires: the overall score lies in [0.7, 0.9) and the list is the
\* default entry alone
C25_Witness ==
    /\ RecommendDone
    /\ response.metrics.overall_score >= 700
    /\ response.metrics.overall_score < 900
    /\ Len(response.recommendations) = 1
    /\ response.recommendations[1].rule = "default"

\* C26: every CitationAccuracy result accounts for each citation exactly
\* once, on the explicit-sources path and on the inline-marker path:
\* valid_citations + len(invalid_citations) = total_citations and
\* 0 <= valid_citations <= total_citations.
C26_EachCitationOnce ==
    CitationDone =>
        LET acc == response.citation_accuracy
        IN  /\ acc.valid_citations + Len(acc.invalid_citations) = acc.total_citations
            /\ 0 <= acc.valid_citations
            /\ acc.valid_citations <= acc.total_citations
            /\ request.sources # <<>> => acc.total_citations = Len(request.sources)
            /\ request.sources = <<>> =>
                   acc.total_citations = Len(extract_citations(request.answer))

\* two provided entries, one valid and one invalid
C26_Witness ==
    /\ CitationDone
    /\ Len(request.sources) = 2
    /\ response.citation_accuracy.valid_citations = 1
    /\ Len(response.citation_accuracy.invalid_citations) = 1

\* two markers in the answer and no provided entry, one valid and one invalid
C26_InlineReached ==
    /\ CitationDone
    /\ request.sources = <<>>
    /\ response.citation_accuracy.valid_citations = 1
    /\ Len(response.citation_accuracy.invalid_citations) = 1

(***************************************************************************)
(* The chat route (api/routes/chat.py:27-88) over the ConversationService  *)
(* (services/conversation_service.py), with several requests in progress.  *)
(* A request runs from its start to the await of line 45 and from there to *)
(* its end without interruption; other requests may run in between.  The   *)
(* variable calls holds the position and the locals of each request.       *)
(***************************************************************************)
MaxChats == 3
RecentLimit == 10

Chats == 1..MaxChats

\* conversation ids: no id in the payload, an id the client sends, and the
\* fresh id str(uuid4()) made for request r
NoId == 0
GivenId == 1
FreshId(r) == 10 + r

\* the messages of the payloads
ChatTexts == {"Who signed the treaty?", "When?"}

\* the one ConversationService all requests share
get_conversation_service == "conversation_service"

\* what awaiting answer_question ends in
AnswerOutcomes == {"returned", "QuotaExceededError", "Exception"}

\* result.text of the answer generated for message in request r
AnswerText(r, message) == [answer_to |-> message, request |-> r]

Message(role, content) == [role |-> role, content |-> content]

create_conversation(store, conversation_id) == store @@ (conversation_id :> <<>>)

add_messageReplacing(store, conversation_id, role, content) ==
    (conversation_id :> <<Message(role, content)>>) @@ store
add_message(store, conversation_id, role, content) ==
    LET known == IF conversation_id \in DOMAIN store THEN store
                 ELSE store @@ (conversation_id :> <<>>)
    IN  [known EXCEPT ![conversation_id] = Append(@, Message(role, content))]

get_recent_messages(store, conversation_id, limit) ==
    IF conversation_id \notin DOMAIN store THEN <<>>
    ELSE LET messages == store[conversation_id]
         IN  SubSeq(messages, Max(Len(messages) - limit, 0) + 1, Len(messages))

\* the store after the await: both messages are added when answer_question
\* returned (lines 51-52), nothing when it raised
StoreAfterUserAlways(store, outcome, conversation_id, message, answer) ==
    IF outcome = "returned"
    THEN add_message(add_message(store, conversation_id, "user", message),
                     conversation_id, "assistant", answer)
    ELSE add_message(store, conversation_id, "user", message)
StoreAfter(store, outcome, conversation_id, message, answer) ==
    IF outcome = "returned"
    THEN add_message(add_message(store, conversation_id, "user", message),
                     conversation_id, "assistant", answer)
    ELSE store

InitChat ==
    /\ pc = "serving"
    /\ request = [status |-> "idle"]
    /\ response = [status |-> "idle"]
    /\ clock = 0
    /\ upload_dir = <<>>
    /\ llm_calls = 0
    /\ collection = <<>>
    /\ conversations = <<>>
    /\ calls = [r \in Chats |-> [pc |-> "idle"]]
    /\ InitIdleSplit /\ InitIdleUpload /\ InitIdlePdf

\* lines 28-45: up to the await of answer_question
ChatStart(r) ==
    /\ calls[r].pc = "idle"
    /\ \E message \in ChatTexts, payload_id \in {NoId, GivenId} :
          LET conversation_id == IF payload_id = NoId THEN FreshId(r) ELSE payload_id
              store == IF payload_id = NoId
                       THEN create_conversation(conversations, conversation_id)
                       ELSE conversations
          IN  /\ conversations' = store
              /\ calls' = [calls EXCEPT ![r] =
                     [pc |-> "awaiting", message |-> message,
                      conversation_id |-> conversation_id,
                      conversation_history |->
                          get_recent_messages(store, conversation_id, RecentLimit)]]
    /\ UNCHANGED <<pc, splitVars, uploadVars, pdfVars, evalVars, clock, upload_dir,
                   llm_calls, collection>>

\* lines 45-88: answer_question returns or raises, and the request ends
ChatFinish(r) ==
    /\ calls[r].pc = "awaiting"
    /\ \E outcome \in AnswerOutcomes :
          LET answer == AnswerText(r, calls[r].message)
          IN  /\ conversations' = StoreAfter(conversations, outcome,
                                            calls[r].conversation_id, calls[r].message, answer)
              /\ calls' = [calls EXCEPT ![r] =
                     IF outcome = "returned"
                     THEN [pc |-> "done", status |-> 200, response |-> answer] @@ @
                     ELSE [pc |-> "done",
                           status |-> IF outcome = "QuotaExceededError" THEN 429 ELSE 500]
                              @@ @]
    /\ UNCHANGED <<pc, splitVars, uploadVars, pdfVars, evalVars, clock, upload_dir,
                   llm_calls, collection>>

NextChat == \E r \in Chats : ChatStart(r) \/ ChatFinish(r)

SpecChat == InitChat /\ [][NextChat]_vars

\* the requests on conversation id that ended with an answer
Successes(id) ==
    {r \in Chats : /\ calls[r].pc = "done"
                   /\ calls[r].status = 200
                   /\ calls[r].conversation_id = id}

\* the messages of every conversation are those of its successful requests
OnlySuccessesStored ==
    \A id \in DOMAIN conversations :
        /\ Len(conversations[id]) = 2 * Cardinality(Successes(id))
        /\ \A k \in 1..Len(conversations[id]) :
               \E r \in Successes(id) :
                   IF conversations[id][k].role = "user"
                   THEN conversations[id][k].content = calls[r].message
                   ELSE conversations[id][k].content = AnswerText(r, calls[r].message)

\* the step ends request r with an error
FailsIn(r) ==
    /\ calls[r].pc = "awaiting"
    /\ calls'[r].pc = "done"
    /\ calls'[r].status # 200

\* C27: a chat request whose answer generation raises (quota-exceeded or
\* other) appends neither the user message nor an assistant message to any
\* conversation, so the messages of a conversation are always exactly those
\* of its successful requests.
C27_FailureLeavesHistory ==
    [][/\ (\E r \in Chats : FailsIn(r)) => conversations' = conversations
       /\ OnlySuccessesStored']_vars

\* one request on the given conversation answered, one refused with 429 and
\* one failed with 500
C27_Witness ==
    /\ \E r \in Chats : calls[r].pc = "done" /\ calls[r].status = 429
                          /\ calls[r].conversation_id = GivenId
    /\ \E r \in Chats : calls[r].pc = "done" /\ calls[r].status = 500
                          /\ calls[r].conversation_id = GivenId
    /\ GivenId \in DOMAIN conversations
    /\ Len(conversations[GivenId]) = 2

\* C28: under any interleaving of chat requests on one conversation_id the
\* stored history has even length and consists of adjacent (user message,
\* assistant reply) pairs, each reply being the answer generated for the
\* user message right before it; no pairs interleave and none is lost.
C28_AdjacentPairs ==
    \A id \in DOMAIN conversations :
        LET history == conversations[id]
        IN  /\ Len(history) % 2 = 0
            /\ \A k \in 1..(Len(history) \div 2) :
                   /\ history[2 * k - 1].role = "user"
                   /\ history[2 * k].role = "assistant"
                   /\ history[2 * k].content.answer_to = history[2 * k - 1].content
                   /\ history[2 * k].content.request \in Successes(id)
            /\ \A r \in Successes(id) :
                   \E k \in 1..(Len(history) \div 2) :
                       /\ history[2 * k].content = AnswerText(r, calls[r].message)
                       /\ history[2 * k - 1].content = calls[r].message

\* two requests on the given conversation that both started before either
\* ended, and both were answered
C28_Witness ==
    /\ Cardinality(Successes(GivenId)) = 2
    /\ \A r \in Successes(GivenId) : calls[r].conversation_history = <<>>
    /\ Len(conversations[GivenId]) = 4

(***************************************************************************)
(* delete_documents_by_source and list_indexed_documents                   *)
(* (vector_store.py:110-187) behind DocumentService.remove_indexed_document *)
(* (document_service.py:80-86).  The collection is the list of its chunks  *)
(* [id, metadata] in the order collection.get returns them.                *)
(***************************************************************************)
MaxIndexed == 3
NoTime == 0

\* metadata of a stored chunk: add_documents_to_vector_store gives every
\* chunk a metadata dict with indexed_at (vector_store.py:52-57)
IndexMetadatas ==
    {[source |-> "a.pdf", indexed_at |-> 1],
     [source |-> "a.pdf", indexed_at |-> 2, page |-> 5],
     [source |-> "b.pdf", indexed_at |-> 1],
     [source |-> "c.pdf", indexed_at |-> 2, page |-> 1],
     [indexed_at |-> 1, page |-> 3]}

IndexSources == {"a.pdf", "b.pdf", "z.pdf"}

\* the collections of up to MaxIndexed chunks, the chunk at position i having id i
IndexCollections ==
    {[i \in 1..Len(mds) |-> [id |-> i, metadata |-> mds[i]]] :
        mds \in SeqsUpTo(IndexMetadatas, MaxIndexed)}

\* lines 173-177: the ids of the chunks whose metadata source is source
MatchingIdsFirstOnly(stored, source) ==
    LET Matches(row) == Has(row.metadata, "source") /\ row.metadata.source = source
        matching == SelectSeq(stored, Matches)
    IN  IF matching = <<>> THEN <<>> ELSE <<matching[1].id>>
MatchingIds(stored, source) ==
    LET Matches(row) == Has(row.metadata, "source") /\ row.metadata.source = source
        matching == SelectSeq(stored, Matches)
    IN  [i \in 1..Len(matching) |-> matching[i].id]

\* collection.delete(ids=...)
CollectionDelete(stored, ids) ==
    LET Kept(row) == row.id \notin Range(ids)
    IN  SelectSeq(stored, Kept)

\* delete_documents_by_source: the collection afterwards and the returned count
delete_documents_by_source(stored, source) ==
    LET matching_ids == MatchingIds(stored, source)
    IN  IF matching_ids # <<>>
        THEN [collection |-> CollectionDelete(stored, matching_ids),
              deleted |-> Len(matching_ids)]
        ELSE [collection |-> stored, deleted |-> 0]

\* the metadata list_indexed_documents counts (lines 132-136)
HasSource(row) == Get(row.metadata, "source", "") # ""

RECURSIVE FirstOccurrences(_)
\* the keys of the dict indexed in insertion order
FirstOccurrences(sources) ==
    IF sources = <<>> THEN <<>>
    ELSE LET before == FirstOccurrences(SubSeq(sources, 1, Len(sources) - 1))
             last == sources[Len(sources)]
         IN  IF last \in Range(before) THEN before ELSE Append(before, last)

RECURSIVE LastIndexedAt(_)
\* lines 137-151 over the chunks of one source, in order
LastIndexedAt(rows) ==
    IF rows = <<>> THEN NoTime
    ELSE LET current_last == LastIndexedAt(SubSeq(rows, 1, Len(rows) - 1))
             indexed_at == Get(rows[Len(rows)].metadata, "indexed_at", NoTime)
         IN  IF indexed_at # NoTime /\ (current_last = NoTime \/ indexed_at > current_last)
             THEN indexed_at ELSE current_last

list_indexed_documents(stored) ==
    LET counted == SelectSeq(stored, HasSource)
        sources == FirstOccurrences([i \in 1..Len(counted) |-> counted[i].metadata.source])
        Of(src) == LET IsOf(row) == row.metadata.source = src IN SelectSeq(counted, IsOf)
    IN  [i \in 1..Len(sources) |->
            [source |-> sources[i],
             chunks_count |-> Len(Of(sources[i])),
             last_indexed_at |-> LastIndexedAt(Of(sources[i]))]]

InitIndex ==
    /\ pc = "call"
    /\ collection \in IndexCollections
    /\ request \in [source : IndexSources]
    /\ response = [status |-> "idle"]
    /\ clock = 0
    /\ calls = <<>>
    /\ upload_dir = <<>>
    /\ llm_calls = 0
    /\ conversations = <<>>
    /\ InitIdleSplit /\ InitIdleUpload /\ InitIdlePdf

\* DocumentService.remove_indexed_document; the request keeps the
\* collection as it was before the call
RemoveIndexedDocument ==
    /\ pc = "call"
    /\ LET result == delete_documents_by_source(collection, request.source)
       IN  /\ collection' = result.collection
           /\ response' = [status |-> "removed", source |-> request.source,
                           deleted_chunks |-> result.deleted]
    /\ request' = [source |-> request.source, before |-> collection]
    /\ pc' = "removed"
    /\ UNCHANGED <<splitVars, uploadVars, pdfVars, clock, calls, upload_dir, llm_calls,
                   conversations>>

\* DocumentService.list_indexed (document_service.py:59-78) after the removal
ListIndexed ==
    /\ pc = "removed"
    /\ response' = [status |-> "listed", deleted_chunks |-> response.deleted_chunks,
                    indexed |-> list_indexed_documents(collection)]
    /\ pc' = "done"
    /\ UNCHANGED <<splitVars, uploadVars, pdfVars, request, serviceVars>>

NextIndex == RemoveIndexedDocument \/ ListIndexed

SpecIndex == InitIndex /\ [][NextIndex]_vars

\* the chunks of the collection c whose metadata source is src
ChunksOf(c, src) ==
    {i \in 1..Len(c) : "source" \in DOMAIN c[i].metadata /\ c[i].metadata.source = src}

\* C29: delete_documents_by_source(collection, s) removes all and only the
\* chunks whose metadata source equals s: none of them remains, every other
\* chunk is still there unchanged, the returned count is the number of
\* chunks of s stored before, list_indexed_documents no longer lists s, and
\* with no chunk of s the index is unchanged and 0 is returned.
C29_DeletesAllAndOnly ==
    /\ pc \in {"removed", "done"} =>
          /\ ChunksOf(collection, request.source) = {}
          /\ Range(collection)
                = {request.before[i] :
                      i \in (1..Len(request.before)) \ ChunksOf(request.before, request.source)}
          /\ Len(collection)
                = Len(request.before) - Cardinality(ChunksOf(request.before, request.source))
          /\ response.deleted_chunks = Cardinality(ChunksOf(request.before, request.source))
          /\ ChunksOf(request.before, request.source) = {} =>
                (collection = request.before /\ response.deleted_chunks = 0)
    /\ pc = "done" =>
          \A i \in 1..Len(response.indexed) : response.indexed[i].source # request.source

\* two chunks of the deleted source and one other chunk that stays listed
C29_Witness ==
    /\ pc = "done"
    /\ response.deleted_chunks = 2
    /\ Len(request.before) = 3
    /\ Len(collection) = 1
    /\ Len(response.indexed) = 1

\* C30: for a filename with an allowed extension, a file larger than
\* max_size_mb megabytes (10 by default) is rejected with the error 'File
\* size exceeds maximum allowed size', and a non-empty file at or below that
\* size is accepted.
C30_LimitInMegabytes ==
    (/\ pc = "done"
     /\ Has(request, "filename")
     /\ Suffix(request.filename) \in AllowedExtensions)
    => /\ request.size > MaxSizeMb * Kib =>
              /\ response.status = 400
              /\ response.detail = "File size exceeds maximum allowed size"
       /\ (0 < request.size /\ request.size <= MaxSizeMb * Kib) => response.status = 200

====
